---- MODULE Spec2Model ----
(***************************************************************************)
(* NFT acquisition-cost reconciliation of the GUNZSCOPE portfolio viewer.  *)
(*                                                                         *)
(* The model follows one run of loadItemDetails (the NFT detail modal):    *)
(*   AvalancheService.getNFTTransferHistory  -> transferHistory            *)
(*   GameMarketplaceService.getPurchasesFor* -> three candidate lists      *)
(*   merge + dedupe + time-window match      -> matchedPurchase            *)
(*   fresh acquisition object                -> freshAcquisition           *)
(*                                                                         *)
(* Representation.  Times are integers in milliseconds counted from an     *)
(* arbitrary origin (an ISO-8601 string and the Date it parses to denote   *)
(* the same millisecond).  A missing string (undefined, null, '') is "",   *)
(* a missing number or Date is Undefined (-1).  A token key                *)
(* `${chain}:${contract}:${tokenId}` is the tuple of its three parts.      *)
(***************************************************************************)
EXTENDS Integers, Sequences, FiniteSets, TLC

VARIABLES
    pc,                     \* position of loadItemDetails
    walletAddress,          \* prop: the viewer wallet, as typed (any case)
    chainLogs,              \* Transfer logs of the token, in the order getLogs delivered them
    rpcOk,                  \* FALSE: a provider call of getNFTTransferHistory throws
    blockKnown,             \* FALSE: provider.getBlock answers null
    chainPayment,           \* payment found in the acquisition transaction (0: none)
    isConfigured,           \* endpointInfo.isConfigured of the marketplace service
    feedToken,              \* response.data.purchases of /purchases/token
    feedViewer,             \* response.data.purchases of /purchases/wallet (viewer wallet)
    feedOwner,              \* response.data.purchases of /purchases/wallet (current owner)
    now,                    \* Date.now() while a response is mapped
    firstIncoming,          \* getNFTTransferHistory: incomingTransfers[0] (NoEvent if none)
    transferHistory,        \* result of getNFTTransferHistory
    tokenPurchases,         \* Strategy A result
    viewerWalletPurchases,  \* Strategy B result
    currentOwnerPurchases,  \* Strategy C result
    dedupedPurchases,       \* merged and deduplicated candidates
    matchedPurchase,        \* the selected purchase (NoPurchase: null)
    marketplaceMatchMethod, \* 'none' | 'txHash' | 'timeWindow'
    freshAcquisition,       \* the acquisition object built at the end of the run
    acquisitionPriceGun,    \* getPositionLabel input (render of the value section)
    priceLow,               \* listingsData?.lowest as passed to both quality functions
    priceHigh,              \* listingsData?.highest as passed to both quality functions
    positionLabel,          \* result of getPositionLabel (NotRendered before the call)
    marketRefDataQuality,   \* result of calculateDataQuality ("pending" before the call)
    store,                  \* localStorage: full key -> item
    dateNow,                \* Date.now() of the cache functions
    cacheResult,            \* the CacheResult of the last cacheGet
    walletData,             \* page: the wallet shown (NoWallet: null)
    loading,                \* page: a wallet submit is fetching
    submitAddress,          \* page: the address of the submit that is fetching
    enrichmentCancelledRef, \* page: enrichmentCancelledRef.current
    enrichRuns,             \* page: the calls of enrichNFTsInBackground, in start order
    nftContractAddress,     \* NEXT_PUBLIC_NFT_COLLECTION_AVALANCHE ("" when not set)
    noCacheMode,            \* modal: ?noCache=1
    mounted,                \* modal: number of the mounted component instance
    isOpen,                 \* modal prop
    modalWallet,            \* modal prop walletAddress
    activeTokenId,          \* modal: activeItem.tokenId
    listingsData,           \* modal state (NoListings: null)
    itemPurchaseData,       \* modal state: tokenId -> what is displayed ("": nothing)
    loadingDetails,         \* modal state: the spinner
    effectPending,          \* modal: a dependency of the load effect changed
    loadRuns,               \* modal: the calls of loadItemDetails, in start order
    proxyAnswer,            \* marketplace proxy: how each of the three lookups is answered
    lookupsIssued,          \* marketplace proxy: the requests sent to it, in order
    runIsBackground,        \* loadItemDetails argument isBackgroundRefresh
    runExistingData,        \* existingData: itemPurchaseData[tokenId] in the run's closure
    renderedData,           \* itemPurchaseData[tokenId] as displayed
    cachedDetail,           \* the NFT detail cached for (wallet, token) (NoDetail: none)
    queryRange,             \* queryLogsInChunks: fromBlock and toBlock of the outer call
    chunkStack,             \* queryLogsInChunks: the nested calls, each with its locals
    getLogsCalls,           \* provider.getLogs calls made, in order
    queryResult,            \* what the outer queryLogsInChunks returned (NoQueryResult before)
    failureCache,           \* opensea.ts failureCache: token key -> recorded failure
    listingRequests,        \* getNFTListings requests awaiting their answer
    lastListings,           \* what the last getNFTListings call returned
    unanswered,             \* the upstreams that never answer
    nftPagination           \* page: nftPagination.hasMore / isLoadingMore, the page loading

world == <<walletAddress, chainLogs, rpcOk, blockKnown, chainPayment, isConfigured,
           feedToken, feedViewer, feedOwner, now>>

\* State of one run of loadItemDetails
runVars == <<pc, walletAddress, chainLogs, rpcOk, blockKnown, chainPayment, isConfigured,
             feedToken, feedViewer, feedOwner, now, firstIncoming, transferHistory,
             tokenPurchases, viewerWalletPurchases, currentOwnerPurchases,
             dedupedPurchases, matchedPurchase, marketplaceMatchMethod, freshAcquisition>>

\* State of the position label and data quality computations
positionVars == <<acquisitionPriceGun, priceLow, priceHigh, positionLabel,
                  marketRefDataQuality>>

\* State of the localStorage cache
cacheVars == <<store, dateNow, cacheResult>>

\* State of the page (app/page.tsx)
pageVars == <<walletData, loading, submitAddress, enrichmentCancelledRef, enrichRuns,
              nftContractAddress, nftPagination>>

\* State of the NFT detail modal
modalVars == <<noCacheMode, mounted, isOpen, modalWallet, activeTokenId, listingsData,
               itemPurchaseData, loadingDetails, effectPending, loadRuns>>

\* State of the marketplace proxy lookups of a run
marketVars == <<proxyAnswer, lookupsIssued>>

\* State of the last step of a run: shouldUpdate and the writes
applyVars == <<runIsBackground, runExistingData, renderedData, cachedDetail>>

\* State of AvalancheService.queryLogsInChunks
chunkVars == <<queryRange, chunkStack, getLogsCalls, queryResult>>

\* State of the listing circuit breaker (lib/api/opensea.ts)
breakerVars == <<failureCache, listingRequests, lastListings>>

\* Everything outside a run of loadItemDetails
outsideRun == <<positionVars, cacheVars, pageVars, modalVars, chunkVars, breakerVars,
                unanswered>>

\* State of the service calls and of the writes of a run
serviceVars == <<marketVars, applyVars, chunkVars, breakerVars, unanswered>>

vars == <<runVars, marketVars, applyVars, outsideRun>>

-----------------------------------------------------------------------------
(* Values *)

Undefined == 0 - 1

ZERO_ADDRESS == "0x0000000000000000000000000000000000000000"

\* String.prototype.toLowerCase on the strings of the model.
ToLowerCase(s) ==
    CASE s = "0xAA" -> "0xaa"
      [] s = "0xBB" -> "0xbb"
      [] s = "0xCC" -> "0xcc"
      [] s = "0xNFT" -> "0xnft"
      [] OTHER -> s

Range(s) == {s[i] : i \in DOMAIN s}

\* |a - b|
Abs(x) == IF x < 0 THEN 0 - x ELSE x

\* All sequences over S of length n, and of length at most n.
RECURSIVE SeqsOfLen(_, _)
SeqsOfLen(S, n) ==
    IF n = 0 THEN {<<>>}
    ELSE {Append(s, x) : s \in SeqsOfLen(S, n - 1), x \in S}

SeqsUpTo(S, n) == UNION {SeqsOfLen(S, k) : k \in 0..n}

-----------------------------------------------------------------------------
(* Transfer History Resolver: lib/blockchain/avalanche.ts *)

\* block.timestamp (seconds) of a block: the chain produces blocks at a fixed pace.
BlockTimestamp(blockNumber) == 1000 + 1200 * blockNumber

\* (a, b) => a.blockNumber !== b.blockNumber ? a.blockNumber - b.blockNumber : a.index - b.index
LogCompare(a, b) ==
    IF a.blockNumber # b.blockNumber THEN a.blockNumber - b.blockNumber
    ELSE a.index - b.index

\* One step of the (stable) sort: x goes behind every element that does not compare above it.
RECURSIVE InsertLog(_, _)
InsertLog(sorted, x) ==
    IF sorted = <<>> THEN <<x>>
    ELSE IF LogCompare(x, Head(sorted)) < 0 THEN <<x>> \o sorted
         ELSE <<Head(sorted)>> \o InsertLog(Tail(sorted), x)

\* Fault: the logs are used in the order the chunks delivered them.
SortLogs_Unsorted(logs) == logs

\* allLogs.sort(...) at the end of queryLogsInChunks
RECURSIVE SortLogs(_)
SortLogs(logs) ==
    IF logs = <<>> THEN <<>>
    ELSE InsertLog(SortLogs(SubSeq(logs, 1, Len(logs) - 1)), logs[Len(logs)])

\* logs.map(...) of getTransferEvents: topics decoded, addresses lower-cased
ParseLog(log) ==
    [from            |-> ToLowerCase(log.from),
     to              |-> ToLowerCase(log.to),
     blockNumber     |-> log.blockNumber,
     logIndex        |-> log.index,
     transactionHash |-> log.transactionHash]

\* getTransferEvents: the events sorted by (blockNumber, logIndex), the current owner
\* (the last transfer's recipient, "" for null) and the number of logs found.
GetTransferEvents(logs) ==
    LET sorted == SortLogs(logs)
        events == [i \in DOMAIN sorted |-> ParseLog(sorted[i])]
    IN  [events         |-> events,
         currentOwner   |-> IF Len(events) > 0 THEN events[Len(events)].to ELSE "",
         totalLogsFound |-> Len(logs)]

NoEvent ==
    [from |-> "", to |-> "", blockNumber |-> Undefined, logIndex |-> Undefined,
     transactionHash |-> ""]

\* events.filter((e) => e.to === walletLower)
IncomingTransfers(events, wallet) ==
    SelectSeq(events, LAMBDA e : e.to = ToLowerCase(wallet))

\* incomingTransfers[0]
FirstIncoming(logs, wallet) ==
    LET incoming == IncomingTransfers(GetTransferEvents(logs).events, wallet)
    IN  IF incoming = <<>> THEN NoEvent ELSE incoming[1]

\* What getNFTTransferHistory returns.  isNull: the catch branch (return null).
NullHistory ==
    [isNull |-> TRUE, purchasePriceGun |-> Undefined, purchaseDate |-> Undefined,
     transferredFrom |-> "", isFreeTransfer |-> FALSE,
     debugInfo |-> [totalLogsFound |-> 0, currentOwner |-> ""]]

GetNFTTransferHistory(logs, wallet, ok, haveBlock, payment) ==
    LET te       == GetTransferEvents(logs)
        incoming == IncomingTransfers(te.events, wallet)
        first    == incoming[1]
        debug    == [totalLogsFound |-> te.totalLogsFound, currentOwner |-> te.currentOwner]
        isFromZeroAddress == first.from = ZERO_ADDRESS
        isFreeTransfer    == payment = 0
    IN  IF ~ok THEN NullHistory
        ELSE IF Len(te.events) = 0 \/ Len(incoming) = 0
        THEN [isNull |-> FALSE, purchasePriceGun |-> 0, purchaseDate |-> Undefined,
              transferredFrom |-> "", isFreeTransfer |-> TRUE, debugInfo |-> debug]
        ELSE [isNull |-> FALSE,
              purchasePriceGun |-> payment,
              purchaseDate |-> IF haveBlock THEN BlockTimestamp(first.blockNumber) * 1000
                               ELSE Undefined,
              transferredFrom |-> IF isFreeTransfer /\ ~isFromZeroAddress THEN first.from
                                  ELSE "",
              isFreeTransfer |-> isFreeTransfer,
              debugInfo |-> debug]

(* Fields loadItemDetails derives from the transfer history (STEP 1) *)

TotalLogsFound(th) == IF th.isNull THEN 0 ELSE th.debugInfo.totalLogsFound
HasTransferData(th) == ~th.isNull /\ TotalLogsFound(th) > 0
AcquiredAt(th) == IF th.isNull THEN Undefined ELSE th.purchaseDate
FromAddress(th) == IF th.isNull THEN "" ELSE th.transferredFrom
AcquisitionType(th) ==
    IF FromAddress(th) = ZERO_ADDRESS THEN "MINT"
    ELSE IF HasTransferData(th) THEN "TRANSFER" ELSE "UNKNOWN"
ViewerWalletLower(wallet) == ToLowerCase(wallet)
CurrentOwnerLower(th) == IF th.isNull THEN "" ELSE ToLowerCase(th.debugInfo.currentOwner)

-----------------------------------------------------------------------------
(* Marketplace Purchase Retriever: lib/api/marketplace.ts *)
(*                                                                         *)
(* An upstream record p is                                                 *)
(*   [id, tokenKey, chain, contract, tokenId, buyer, price, purchaseDate,  *)
(*    txHash, orderId]                                                     *)
(* where id is p.id || p.purchaseId, buyer is p.buyer || p.buyerAddress,   *)
(* price is p.priceGun || p.price, purchaseDate is p.purchaseDate ||       *)
(* p.timestamp || p.createdAt (an ISO string; Undefined when absent),      *)
(* txHash is p.txHash || p.transactionHash, and tokenKey is <<>> when the  *)
(* record carries none.                                                    *)

\* buildTokenKey
BuildTokenKey(chain, contractAddress, tokenId) ==
    <<chain, ToLowerCase(contractAddress), tokenId>>

\* tokenKey.toLowerCase()
TokenKeyLower(tokenKey) == [i \in DOMAIN tokenKey |-> ToLowerCase(tokenKey[i])]

\* toIsoString for an ISO string or a missing value
ToIsoString(value, clock) == IF value = Undefined THEN clock ELSE value

\* p.id || p.purchaseId || String(Date.now())
PurchaseIdOf(p, clock) == IF p.id # "" THEN p.id ELSE ToString(clock)

\* getPurchasesForToken: the map over response.data.purchases
NormalizeTokenPurchase(p, tokenKey, clock) ==
    [purchaseId      |-> PurchaseIdOf(p, clock),
     tokenKey        |-> tokenKey,
     buyerAddress    |-> ToLowerCase(p.buyer),
     priceGun        |-> p.price,
     purchaseDateIso |-> ToIsoString(p.purchaseDate, clock),
     txHash          |-> p.txHash,
     orderId         |-> p.orderId]

GetPurchasesForToken(feed, tokenKey, clock) ==
    [i \in DOMAIN feed |-> NormalizeTokenPurchase(feed[i], tokenKey, clock)]

\* getPurchasesForWallet: the map over response.data.purchases
NormalizeWalletPurchase(p, wallet, clock) ==
    [purchaseId      |-> PurchaseIdOf(p, clock),
     tokenKey        |-> IF p.tokenKey # <<>> THEN p.tokenKey
                         ELSE <<IF p.chain # "" THEN p.chain ELSE "gunz",
                                ToLowerCase(p.contract), p.tokenId>>,
     buyerAddress    |-> IF p.buyer # "" THEN ToLowerCase(p.buyer) ELSE ToLowerCase(wallet),
     priceGun        |-> p.price,
     purchaseDateIso |-> ToIsoString(p.purchaseDate, clock),
     txHash          |-> p.txHash,
     orderId         |-> p.orderId]

GetPurchasesForWallet(feed, wallet, clock) ==
    [i \in DOMAIN feed |-> NormalizeWalletPurchase(feed[i], wallet, clock)]

-----------------------------------------------------------------------------
(* loadItemDetails, STEP 3: merge, dedupe, match *)

TIME_WINDOW_MS == 10 * 60 * 1000

\* walletPurchases.filter(p => p.tokenKey.toLowerCase() === tokenKey.toLowerCase())
MatchingToken(purchases, tokenKey) ==
    SelectSeq(purchases, LAMBDA p : TokenKeyLower(p.tokenKey) = TokenKeyLower(tokenKey))

\* allPurchases
MergePurchases(fromToken, fromViewer, fromOwner, tokenKey) ==
    fromToken \o MatchingToken(fromViewer, tokenKey) \o MatchingToken(fromOwner, tokenKey)

\* Fault: the transaction hash is left out of the dedupe keys.
DedupeKeys_NoTxHash(p) ==
    {<<k>> : k \in {p.purchaseId, p.orderId} \ {""}}
    \cup {<<p.tokenKey[1], p.tokenKey[2], p.tokenKey[3], p.purchaseDateIso, p.priceGun>>}

\* The dedupe keys of a record, each a tuple of the parts of the key string:
\* [purchaseId, txHash, orderId, `${tokenKey}:${ms}:${priceGun}`].filter(Boolean)
DedupeKeys(p) ==
    {<<k>> : k \in {p.purchaseId, p.txHash, p.orderId} \ {""}}
    \cup {<<p.tokenKey[1], p.tokenKey[2], p.tokenKey[3], p.purchaseDateIso, p.priceGun>>}

\* Fault: `seen` holds the keys of the previous record only (an adjacent-duplicates filter).
RECURSIVE DedupeFrom_LastOnly(_, _)
DedupeFrom_LastOnly(purchases, seen) ==
    IF purchases = <<>> THEN <<>>
    ELSE LET p    == Head(purchases)
             keys == {<<k>> : k \in {p.purchaseId, p.txHash, p.orderId} \ {""}}
                     \cup {<<p.tokenKey[1], p.tokenKey[2], p.tokenKey[3],
                              p.purchaseDateIso, p.priceGun>>}
         IN  IF keys \cap seen # {} THEN DedupeFrom_LastOnly(Tail(purchases), keys)
             ELSE <<p>> \o DedupeFrom_LastOnly(Tail(purchases), keys)

\* allPurchases.filter(...) with the running `seen` set
RECURSIVE DedupeFrom(_, _)
DedupeFrom(purchases, seen) ==
    IF purchases = <<>> THEN <<>>
    ELSE LET p    == Head(purchases)
             keys == DedupeKeys(p)
         IN  IF keys \cap seen # {} THEN DedupeFrom(Tail(purchases), seen)
             ELSE <<p>> \o DedupeFrom(Tail(purchases), seen \cup keys)

Dedupe(purchases) == DedupeFrom(purchases, {})

\* Math.abs(new Date(p.purchaseDateIso).getTime() - acquiredAt.getTime())
TimeDiff(p, acquiredAt) == Abs(p.purchaseDateIso - acquiredAt)

\* Fault: the window is open at its ends (timeDiff < TIME_WINDOW_MS).
CandidatesInWindow_Strict(purchases, acquiredAt) ==
    SelectSeq(purchases, LAMBDA p : TimeDiff(p, acquiredAt) < TIME_WINDOW_MS)

\* dedupedPurchases.filter(p => timeDiff <= TIME_WINDOW_MS)
CandidatesInWindow(purchases, acquiredAt) ==
    SelectSeq(purchases, LAMBDA p : TimeDiff(p, acquiredAt) <= TIME_WINDOW_MS)

\* Fault: only the viewer wallet counts as identity.
IdentityMatches_ViewerOnly(purchases, viewerWalletLower, currentOwnerLower) ==
    SelectSeq(purchases, LAMBDA p : ToLowerCase(p.buyerAddress) = viewerWalletLower)

\* candidatesInWindow.filter(p => buyerLower === viewerWalletLower || buyerLower === currentOwnerLower)
IdentityMatches(purchases, viewerWalletLower, currentOwnerLower) ==
    SelectSeq(purchases, LAMBDA p : \/ ToLowerCase(p.buyerAddress) = viewerWalletLower
                                    \/ ToLowerCase(p.buyerAddress) = currentOwnerLower)

\* list.reduce((closest, p) => pDiff < closestDiff ? p : closest), list not empty
RECURSIVE ClosestFrom(_, _, _)
ClosestFrom(closest, rest, acquiredAt) ==
    IF rest = <<>> THEN closest
    ELSE ClosestFrom(IF TimeDiff(Head(rest), acquiredAt) < TimeDiff(closest, acquiredAt)
                     THEN Head(rest) ELSE closest,
                     Tail(rest), acquiredAt)

Closest(list, acquiredAt) == ClosestFrom(Head(list), Tail(list), acquiredAt)

NoPurchase ==
    [purchaseId |-> "", tokenKey |-> <<>>, buyerAddress |-> "", priceGun |-> Undefined,
     purchaseDateIso |-> Undefined, txHash |-> "", orderId |-> ""]

\* The matching algorithm.  Priority 1 (exact txHash) is only a comment in the source:
\* getNFTTransferHistory does not return the acquisition's transaction hash, and
\* matchedPurchase is still null when Priority 2 starts.
MatchPurchase(deduped, acquiredAt, viewerWalletLower, currentOwnerLower) ==
    LET inWindow == CandidatesInWindow(deduped, acquiredAt)
        identity == IdentityMatches(inWindow, viewerWalletLower, currentOwnerLower)
    IN  IF Len(inWindow) = 1
        THEN [purchase |-> inWindow[1], method |-> "timeWindow"]
        ELSE IF Len(inWindow) > 1
        THEN IF Len(identity) >= 1
             THEN [purchase |-> Closest(identity, acquiredAt), method |-> "timeWindow"]
             ELSE [purchase |-> Closest(inWindow, acquiredAt), method |-> "timeWindow"]
        ELSE [purchase |-> NoPurchase, method |-> "none"]

\* freshAcquisition (purchasePriceUsd, which needs the price oracle, is left out)
NoAcquisition ==
    [acquisitionSource |-> "", acquiredAt |-> Undefined, fromAddress |-> "",
     acquisitionType |-> "", purchasePriceGun |-> Undefined, purchaseDate |-> Undefined,
     marketplaceTxHash |-> "", transferredFrom |-> "", isFreeTransfer |-> FALSE]

BuildFreshAcquisition(th, matched) ==
    LET hasTransferData     == HasTransferData(th)
        purchasePriceGun    == IF matched # NoPurchase THEN matched.priceGun ELSE Undefined
        hasMarketplaceMatch == purchasePriceGun # Undefined
        acquisitionType     == AcquisitionType(th)
    IN  [acquisitionSource |-> IF hasMarketplaceMatch THEN "marketplace"
                               ELSE IF hasTransferData THEN "transfers" ELSE "none",
         acquiredAt        |-> IF hasTransferData THEN AcquiredAt(th) ELSE Undefined,
         fromAddress       |-> IF hasTransferData THEN FromAddress(th) ELSE "",
         acquisitionType   |-> IF hasTransferData THEN acquisitionType ELSE "",
         purchasePriceGun  |-> IF hasMarketplaceMatch THEN purchasePriceGun ELSE Undefined,
         purchaseDate      |-> IF hasMarketplaceMatch THEN matched.purchaseDateIso
                               ELSE Undefined,
         marketplaceTxHash |-> IF hasMarketplaceMatch THEN matched.txHash ELSE "",
         transferredFrom   |-> IF hasTransferData /\ acquisitionType = "TRANSFER"
                               THEN FromAddress(th) ELSE "",
         isFreeTransfer    |-> hasTransferData /\ acquisitionType = "TRANSFER"
                               /\ ~hasMarketplaceMatch]

-----------------------------------------------------------------------------
(* Position label and data quality.  Amounts are whole numbers of UNIT = 0.0000005 GUN, *)
(* so that the midpoint of two listing prices given in micro-GUN is a whole number.     *)
(* A JavaScript number | null | undefined is a record: kind says which, value is the    *)
(* amount of a number.  Quotients are kept exact as numerator and denominator.          *)

UnitsPerGun == 2000000

Null == [kind |-> "null", value |-> 0]
Missing == [kind |-> "undefined", value |-> 0]
NaN == [kind |-> "NaN", value |-> 0]
Num(v) == [kind |-> "number", value |-> v]
Gun(g) == Num(g * UnitsPerGun)

\* A positive rational n/d in units
Rational(n, d) == [n |-> n, d |-> d]

\* const epsilon = 1e-9 (getPositionLabel): 1/500 unit
EPSILON == Rational(1, 500)

\* const epsilon = 0.0001 (calculateDataQuality): 200 units
QUALITY_EPSILON == Rational(200, 1)

\* acquisitionPriceGun >= 0.000001: 2 units
MIN_ACQUISITION == UnitsPerGun \div 1000000

\* Math.max(x, epsilon) for a whole amount x
MathMax(x, epsilon) ==
    IF x >= (epsilon.n + epsilon.d - 1) \div epsilon.d THEN Rational(x, 1) ELSE epsilon

\* The quotient num / den of a whole amount and a positive rational
Quotient(num, den) == [isNull |-> FALSE, num |-> num, den |-> den]
NoQuotient == [isNull |-> TRUE, num |-> 0, den |-> Rational(1, 1)]

\* r <= p/q and r < p/q for a quotient r and whole p >= 0, q > 0
AtMost(r, p, q) == r.num <= (p * r.den.n) \div (q * r.den.d)
LessThan(r, p, q) == r.num <= (p * r.den.n - 1) \div (q * r.den.d)

\* Math.abs of a quotient
MathAbs(r) == [r EXCEPT !.num = Abs(r.num)]

\* x !== null && x !== undefined && !isNaN(x) && x >= 0
HasBound(x) == x.kind = "number" /\ x.value >= 0

\* hasValidAcquisition
HasValidAcquisition(a) == a.kind = "number" /\ a.value >= MIN_ACQUISITION

\* Fault: one bound alone gives no market reference
MarketRefGun_BothOnly(low, high) ==
    IF HasBound(low) /\ HasBound(high) THEN Num((low.value + high.value) \div 2)
    ELSE Null

\* marketRefGun; the midpoint is whole: listing prices are even numbers of units
MarketRefGun(low, high) ==
    IF HasBound(low) /\ HasBound(high) THEN Num((low.value + high.value) \div 2)
    ELSE IF HasBound(low) THEN low
    ELSE IF HasBound(high) THEN high
    ELSE Null

\* spreadRatio = (priceHigh - priceLow) / Math.max(priceLow, epsilon)
SpreadRatio(low, high, epsilon) == Quotient(high - low, MathMax(low, epsilon))

\* Fault: the two wider bands are exchanged
QualityOf_Exchanged(spreadRatio) ==
    IF AtMost(spreadRatio, 1, 4) THEN "strong"
    ELSE IF AtMost(spreadRatio, 3, 5) THEN "limited"
    ELSE "fair"

\* The three-way resolution of a spread ratio: <= 0.25 (1/4), <= 0.60 (3/5)
QualityOf(spreadRatio) ==
    IF AtMost(spreadRatio, 1, 4) THEN "strong"
    ELSE IF AtMost(spreadRatio, 3, 5) THEN "fair"
    ELSE "limited"

\* dataQuality of getPositionLabel ("null": none)
LabelDataQuality(low, high) ==
    IF HasBound(low) /\ HasBound(high)
    THEN QualityOf(SpreadRatio(low.value, high.value, EPSILON))
    ELSE "null"

\* Fault: the deadband includes its edge
DeadbandState_Closed(pnlPct) ==
    IF AtMost(MathAbs(pnlPct), 3, 100) THEN "FLAT"
    ELSE IF ~LessThan(pnlPct, 3, 100) THEN "UP"
    ELSE "DOWN"

\* Determine position state with the 3% deadband
DeadbandState(pnlPct) ==
    IF LessThan(MathAbs(pnlPct), 3, 100) THEN "FLAT"
    ELSE IF ~LessThan(pnlPct, 3, 100) THEN "UP"
    ELSE "DOWN"

\* Fault: the cost basis is looked at before the market reference
ResolveMissing_CostFirst(marketRefGun, hasValidAcquisition) ==
    IF ~hasValidAcquisition THEN "NO_COST_BASIS"
    ELSE IF marketRefGun = Null THEN "NO_MARKET_REF"
    ELSE "ok"

\* Determine state based on missing data ("ok": nothing is missing)
ResolveMissing(marketRefGun, hasValidAcquisition) ==
    IF marketRefGun = Null THEN "NO_MARKET_REF"
    ELSE IF ~hasValidAcquisition THEN "NO_COST_BASIS"
    ELSE "ok"

GetPositionLabel(acquisition, low, high) ==
    LET marketRefGun == MarketRefGun(low, high)
        dataQuality  == LabelDataQuality(low, high)
        missing      == ResolveMissing(marketRefGun, HasValidAcquisition(acquisition))
        pnlGun       == marketRefGun.value - acquisition.value
        pnlPct       == Quotient(pnlGun, MathMax(acquisition.value, EPSILON))
    IN  IF missing = "NO_MARKET_REF"
        THEN [state |-> "NO_MARKET_REF", pnlPct |-> NoQuotient, pnlGun |-> Null,
              marketRefGun |-> Null, dataQuality |-> "null"]
        ELSE IF missing = "NO_COST_BASIS"
        THEN [state |-> "NO_COST_BASIS", pnlPct |-> NoQuotient, pnlGun |-> Null,
              marketRefGun |-> marketRefGun, dataQuality |-> dataQuality]
        ELSE [state |-> DeadbandState(pnlPct), pnlPct |-> pnlPct, pnlGun |-> Num(pnlGun),
              marketRefGun |-> marketRefGun, dataQuality |-> dataQuality]

\* Before the value section is rendered
NotRendered ==
    [state |-> "", pnlPct |-> NoQuotient, pnlGun |-> Null, marketRefGun |-> Null,
     dataQuality |-> "null"]

\* calculateDataQuality(priceLow?, priceHigh?): only undefined is looked for; in the
\* arithmetic null counts as 0 and NaN makes every comparison false.
CalculateDataQuality(low, high) ==
    IF low.kind = "undefined" \/ high.kind = "undefined" THEN "null"
    ELSE IF low.kind = "NaN" \/ high.kind = "NaN" THEN "limited"
    ELSE QualityOf(SpreadRatio(low.value, high.value, QUALITY_EPSILON))

-----------------------------------------------------------------------------
(* The localStorage cache (nftCache.ts).  The store maps a full key to the item kept   *)
(* under it: NoEntry (getItem answers null), a text that JSON.parse rejects or that is *)
(* no entry object (parses = FALSE), or an entry.                                      *)

NoEntry ==
    [present |-> FALSE, parses |-> FALSE, schemaVersion |-> "", data |-> "",
     cachedAt |-> 0, expiresAt |-> 0]

Corrupt ==
    [present |-> TRUE, parses |-> FALSE, schemaVersion |-> "", data |-> "",
     cachedAt |-> 0, expiresAt |-> 0]

\* JSON.stringify(entry) of cacheSet
Entry(schemaVersion, value, cachedAt, expiresAt) ==
    [present |-> TRUE, parses |-> TRUE, schemaVersion |-> schemaVersion, data |-> value,
     cachedAt |-> cachedAt, expiresAt |-> expiresAt]

\* SCHEMA_VERSIONS.nftDetail and DEFAULT_TTL_SECONDS
SCHEMA_VERSION_NFT_DETAIL == "v3"
DEFAULT_TTL_SECONDS == 24 * 60 * 60

\* Fault: an expired entry is reported as a miss and left in the store
CacheGet_KeepExpired(st, fullKey, expectedVersion, clock) ==
    LET entry   == st[fullKey]
        removed == [st EXCEPT ![fullKey] = NoEntry]
        Miss(reason, after) ==
            [result |-> [hit |-> FALSE, value |-> "", cacheKey |-> fullKey,
                         reason |-> reason],
             store |-> after]
    IN  IF ~entry.present THEN Miss("not_found", st)
        ELSE IF ~entry.parses THEN Miss("parse_error", removed)
        ELSE IF entry.schemaVersion # expectedVersion THEN Miss("version_mismatch", removed)
        ELSE IF clock > entry.expiresAt THEN Miss("expired", st)
        ELSE [result |-> [hit |-> TRUE, value |-> entry.data, cacheKey |-> fullKey,
                          reason |-> ""],
              store |-> st]

\* cacheGet: the result, and the store it leaves
CacheGet(st, fullKey, expectedVersion, clock) ==
    LET entry   == st[fullKey]
        removed == [st EXCEPT ![fullKey] = NoEntry]
        Miss(reason, after) ==
            [result |-> [hit |-> FALSE, value |-> "", cacheKey |-> fullKey,
                         reason |-> reason],
             store |-> after]
    IN  IF ~entry.present THEN Miss("not_found", st)
        ELSE IF ~entry.parses THEN Miss("parse_error", removed)
        ELSE IF entry.schemaVersion # expectedVersion THEN Miss("version_mismatch", removed)
        ELSE IF clock > entry.expiresAt THEN Miss("expired", removed)
        ELSE [result |-> [hit |-> TRUE, value |-> entry.data, cacheKey |-> fullKey,
                          reason |-> ""],
              store |-> st]

\* cacheSet: the store it leaves when setItem succeeds
CacheSet(st, fullKey, schemaVersion, value, ttlSeconds, clock) ==
    [st EXCEPT ![fullKey] = Entry(schemaVersion, value, clock, clock + ttlSeconds * 1000)]

\* buildNftDetailCacheKey
BuildNftDetailCacheKey(wallet, tokenKey) ==
    <<"zillascope", "nft", "detail", SCHEMA_VERSION_NFT_DETAIL, ToLowerCase(wallet), tokenKey>>

\* getCachedNFTDetail / setCachedNFTDetail
GetCachedNFTDetail(st, wallet, tokenKey, clock) ==
    CacheGet(st, BuildNftDetailCacheKey(wallet, tokenKey), SCHEMA_VERSION_NFT_DETAIL, clock)

SetCachedNFTDetail(st, wallet, tokenKey, data, clock) ==
    CacheSet(st, BuildNftDetailCacheKey(wallet, tokenKey), SCHEMA_VERSION_NFT_DETAIL, data,
             DEFAULT_TTL_SECONDS, clock)

-----------------------------------------------------------------------------
(* One run of loadItemDetails for the token of the modal *)

NftChain == "avalanche"
NftContractAddress == "0xNFT"
TokenId == "1"
TokenKey == BuildTokenKey(NftChain, NftContractAddress, TokenId)

\* STEP 1: await avalancheService.getNFTTransferHistory(...)
LoadTransferHistory ==
    /\ pc = "start"
    /\ transferHistory' =
           GetNFTTransferHistory(chainLogs, walletAddress, rpcOk, blockKnown, chainPayment)
    /\ firstIncoming' = IF rpcOk THEN FirstIncoming(chainLogs, walletAddress) ELSE NoEvent
    /\ pc' = "retrieve"
    /\ UNCHANGED <<outsideRun, marketVars, applyVars, world, tokenPurchases, viewerWalletPurchases, currentOwnerPurchases,
                   dedupedPurchases, matchedPurchase, marketplaceMatchMethod,
                   freshAcquisition>>

\* How the server proxy answers a lookup: with the purchases, with configured: false,
\* with status 503, with another error, or not within the axios timeout
ProxyAnswers == {"ok", "notConfigured", "503", "error", "timeout"}

\* Fault: the purchases of a response are used whatever the response says
Answered_Unchecked(answer, purchases) == purchases

\* getPurchasesForToken / getPurchasesForWallet around the map: configured === false
\* and every caught error (503, any other, the timeout) give []
Answered(answer, purchases) == IF answer = "ok" THEN purchases ELSE <<>>

\* STEP 3, retrieval: runs only with transfer data and an acquisition time.  Without a
\* configured marketplace only testConnection runs; otherwise the token is looked up,
\* then the viewer, then the owner if it is known and is not the viewer.
RetrievePurchases ==
    /\ pc = "retrieve"
    /\ LET dated   == /\ HasTransferData(transferHistory)
                      /\ AcquiredAt(transferHistory) # Undefined
           attempt == dated /\ isConfigured
           viewer  == ViewerWalletLower(walletAddress)
           owner   == CurrentOwnerLower(transferHistory)
       IN  /\ tokenPurchases' =
                  IF attempt
                  THEN Answered(proxyAnswer["token"],
                                GetPurchasesForToken(feedToken, TokenKey, now))
                  ELSE <<>>
           /\ viewerWalletPurchases' =
                  IF attempt /\ viewer # ""
                  THEN Answered(proxyAnswer["viewer"],
                                GetPurchasesForWallet(feedViewer, viewer, now))
                  ELSE <<>>
           /\ currentOwnerPurchases' =
                  IF attempt /\ owner # "" /\ owner # viewer
                  THEN Answered(proxyAnswer["owner"],
                                GetPurchasesForWallet(feedOwner, owner, now))
                  ELSE <<>>
           /\ lookupsIssued' =
                  IF ~dated THEN <<>>
                  ELSE IF ~isConfigured THEN <<"testConnection">>
                  ELSE <<"getPurchasesForToken">>
                       \o (IF viewer # "" THEN <<"getPurchasesForWallet">> ELSE <<>>)
                       \o (IF owner # "" /\ owner # viewer
                           THEN <<"getPurchasesForWallet">> ELSE <<>>)
           /\ pc' = IF attempt THEN "match" ELSE "build"
    /\ UNCHANGED <<outsideRun, applyVars, world, proxyAnswer, firstIncoming,
                   transferHistory, dedupedPurchases, matchedPurchase,
                   marketplaceMatchMethod, freshAcquisition>>

\* Fault: the matching algorithm runs on allPurchases instead of dedupedPurchases.
MatchCandidates_Unmerged ==
    /\ pc = "match"
    /\ LET merged == MergePurchases(tokenPurchases, viewerWalletPurchases,
                                    currentOwnerPurchases, TokenKey)
           result == IF Len(merged) > 0
                     THEN MatchPurchase(merged, AcquiredAt(transferHistory),
                                        ViewerWalletLower(walletAddress),
                                        CurrentOwnerLower(transferHistory))
                     ELSE [purchase |-> NoPurchase, method |-> "none"]
       IN  /\ dedupedPurchases' = Dedupe(merged)
           /\ matchedPurchase' = result.purchase
           /\ marketplaceMatchMethod' = result.method
    /\ pc' = "build"
    /\ UNCHANGED <<outsideRun, marketVars, applyVars, world, firstIncoming, transferHistory, tokenPurchases,
                   viewerWalletPurchases, currentOwnerPurchases, freshAcquisition>>

\* STEP 3, merge + dedupe + matching algorithm (synchronous)
MatchCandidates ==
    /\ pc = "match"
    /\ LET deduped == Dedupe(MergePurchases(tokenPurchases, viewerWalletPurchases,
                                             currentOwnerPurchases, TokenKey))
           result  == IF Len(deduped) > 0
                      THEN MatchPurchase(deduped, AcquiredAt(transferHistory),
                                         ViewerWalletLower(walletAddress),
                                         CurrentOwnerLower(transferHistory))
                      ELSE [purchase |-> NoPurchase, method |-> "none"]
       IN  /\ dedupedPurchases' = deduped
           /\ matchedPurchase' = result.purchase
           /\ marketplaceMatchMethod' = result.method
    /\ pc' = "build"
    /\ UNCHANGED <<outsideRun, marketVars, applyVars, world, firstIncoming, transferHistory, tokenPurchases,
                   viewerWalletPurchases, currentOwnerPurchases, freshAcquisition>>

\* Build fresh acquisition object
BuildAcquisition ==
    /\ pc = "build"
    /\ freshAcquisition' = BuildFreshAcquisition(transferHistory, matchedPurchase)
    /\ pc' = "done"
    /\ UNCHANGED <<outsideRun, marketVars, applyVars, world, firstIncoming, transferHistory, tokenPurchases,
                   viewerWalletPurchases, currentOwnerPurchases, dedupedPurchases,
                   matchedPurchase, marketplaceMatchMethod>>

\* The value section is rendered: getPositionLabel({...})
RenderPositionLabel ==
    /\ positionLabel = NotRendered
    /\ positionLabel' = GetPositionLabel(acquisitionPriceGun, priceLow, priceHigh)
    /\ UNCHANGED <<runVars, serviceVars, cacheVars, pageVars, modalVars, acquisitionPriceGun, priceLow,
                   priceHigh, marketRefDataQuality>>

\* getMarketReference: calculateDataQuality(listingsData?.lowest, listingsData?.highest)
GetMarketReference ==
    /\ marketRefDataQuality = "pending"
    /\ marketRefDataQuality' = CalculateDataQuality(priceLow, priceHigh)
    /\ UNCHANGED <<runVars, serviceVars, cacheVars, pageVars, modalVars, acquisitionPriceGun, priceLow,
                   priceHigh, positionLabel>>

Next ==
    \/ LoadTransferHistory
    \/ RetrievePurchases
    \/ MatchCandidates
    \/ BuildAcquisition

-----------------------------------------------------------------------------
(* The inputs of a run: what the chain and the marketplace answer *)

MaxLogs == 3
MaxPurchases == 3
MaxCandidates == 2

\* Transfer logs of the token: mints and transfers between two holders, at most one
\* log per (block, index), all logs of a block in one transaction.
Log(f, t, b, i) ==
    [from |-> f, to |-> t, blockNumber |-> b, index |-> i,
     transactionHash |-> IF b = 1 THEN "0xT1" ELSE "0xT2"]

LogUniverse ==
    {l \in {Log(f, t, b, i) : f \in {ZERO_ADDRESS, "0xaa", "0xbb"}, t \in {"0xaa", "0xbb"},
                              b \in {1, 2}, i \in {0, 1}} : l.from # l.to}

DistinctPositions(logs) ==
    \A i, j \in DOMAIN logs :
        i # j => <<logs[i].blockNumber, logs[i].index>> # <<logs[j].blockNumber, logs[j].index>>

\* Every delivery order of every set of n logs, and of at most n logs
RECURSIVE DeliveriesOfLen(_)
DeliveriesOfLen(n) ==
    IF n = 0 THEN {<<>>}
    ELSE UNION {{Append(logs, l) : l \in {m \in LogUniverse : DistinctPositions(Append(logs, m))}} :
                    logs \in DeliveriesOfLen(n - 1)}

LogDeliveries(n) == UNION {DeliveriesOfLen(k) : k \in 0..n}

\* Two fixed histories: the viewer minted and holds the token; the viewer bought it from
\* 0xbb and later moved it to 0xcc (so the current owner is not the viewer).
HeldHistory == <<Log(ZERO_ADDRESS, "0xaa", 1, 0)>>
MovedHistory == <<Log("0xbb", "0xaa", 1, 0), Log("0xaa", "0xcc", 2, 0)>>

\* The acquisition time of both fixed histories (block 1)
AcquiredAtBlock1 == BlockTimestamp(1) * 1000

Raw(id, tk, buyer, price, date, tx, order) ==
    [id |-> id, tokenKey |-> tk, chain |-> "avalanche", contract |-> "0xNFT",
     tokenId |-> "1", buyer |-> buyer, price |-> price, purchaseDate |-> date,
     txHash |-> tx, orderId |-> order]

\* All splits of at most n upstream records over the three responses
Feeds(TokenRecords, WalletRecords, n) ==
    UNION {SeqsOfLen(TokenRecords, l[1]) \X SeqsOfLen(WalletRecords, l[2])
               \X SeqsOfLen(WalletRecords, l[3]) :
           l \in {m \in (0..n) \X (0..n) \X (0..n) : m[1] + m[2] + m[3] <= n}}

InitRun(Wallets, Deliveries, Rpc, Blocks, Payments, Configured, FeedSet, Clocks) ==
    /\ pc = "start"
    /\ walletAddress \in Wallets
    /\ chainLogs \in Deliveries
    /\ rpcOk \in Rpc
    /\ blockKnown \in Blocks
    /\ chainPayment \in Payments
    /\ isConfigured \in Configured
    /\ \E f \in FeedSet : feedToken = f[1] /\ feedViewer = f[2] /\ feedOwner = f[3]
    /\ now \in Clocks
    /\ firstIncoming = NoEvent
    /\ transferHistory = NullHistory
    /\ tokenPurchases = <<>>
    /\ viewerWalletPurchases = <<>>
    /\ currentOwnerPurchases = <<>>
    /\ dedupedPurchases = <<>>
    /\ matchedPurchase = NoPurchase
    /\ marketplaceMatchMethod = "none"
    /\ freshAcquisition = NoAcquisition
    /\ lookupsIssued = <<>>

-----------------------------------------------------------------------------
(* The page and the NFT detail modal: values *)

\* walletData = null
NoWallet == [address |-> "", enriched |-> {}]

\* listingsData = null; otherwise the record says for which token it was fetched
NoListings == [tokenId |-> ""]

\* The wallets of the page
PageWallets == {"0xaa", "0xbb"}

\* The NFTs getNFTsPaginated answers for a wallet, by primary token id: the first page
WalletNfts(address) ==
    IF address = "0xaa" THEN <<"1", "3", "4">> ELSE <<"8">>

\* The second and last page; wallet 0xbb has one page only
MoreNfts(address) ==
    IF address = "0xaa" THEN <<"5">> ELSE <<>>

\* nft.tokenIds of the grouped NFT of wallet 0xaa that the modal shows
GroupTokenIds == <<"1", "2">>

AllTokenIds == {"1", "2", "3", "4", "5", "8"}

\* buildTokenKey('avalanche', contractAddress, tokenId)
TokenKeyOf(contractAddress, tokenId) == BuildTokenKey("avalanche", contractAddress, tokenId)

\* The full keys of the NFT detail cache
CacheKeys ==
    {BuildNftDetailCacheKey(w, TokenKeyOf(c, t)) :
         w \in PageWallets, c \in {"", "0xNFT"}, t \in AllTokenIds}

EmptyStore == [k \in CacheKeys |-> NoEntry]

NoResult == [hit |-> FALSE, value |-> "", cacheKey |-> <<>>, reason |-> ""]

\* No cache function was called
IdleCache ==
    /\ store = EmptyStore
    /\ dateNow = 0
    /\ cacheResult = NoResult

\* nftPagination before a wallet is loaded: hasMore false, isLoadingMore false
\* (moreFor: walletData.address in the closure of the handleLoadMoreNFTs call in flight)
NoMorePages == [hasMore |-> FALSE, isLoadingMore |-> FALSE, moreFor |-> ""]

\* No wallet was submitted
IdlePage ==
    /\ walletData = NoWallet
    /\ loading = FALSE
    /\ submitAddress = ""
    /\ enrichmentCancelledRef = FALSE
    /\ enrichRuns = <<>>
    /\ nftPagination = NoMorePages

\* The modal was never opened
IdleModal ==
    /\ mounted = 0
    /\ isOpen = FALSE
    /\ modalWallet = ""
    /\ activeTokenId = ""
    /\ listingsData = NoListings
    /\ itemPurchaseData = [t \in AllTokenIds |-> ""]
    /\ loadingDetails = FALSE
    /\ effectPending = FALSE
    /\ loadRuns = <<>>

\* Nothing is being rendered
IdlePosition ==
    /\ acquisitionPriceGun = Missing
    /\ priceLow = Missing
    /\ priceHigh = Missing
    /\ positionLabel = NotRendered
    /\ marketRefDataQuality = "pending"

\* The three marketplace lookups of a run: by token, by viewer wallet, by current owner
Lookups == {"token", "viewer", "owner"}

\* The proxy answers every lookup with the purchases it has
AllAnswered == [l \in Lookups |-> "ok"]

\* itemPurchaseData[tokenId] is undefined; no NFT detail is cached
NoDetail == NoAcquisition

\* A foreground run with nothing rendered and nothing cached
IdleApply ==
    /\ runIsBackground = FALSE
    /\ runExistingData = NoDetail
    /\ renderedData = NoDetail
    /\ cachedDetail = NoDetail

\* queryLogsInChunks has not returned
NoQueryResult == [returned |-> FALSE, logs |-> <<>>, chunksQueried |-> 0,
                  blockRanges |-> <<>>]

\* queryLogsInChunks was not called
IdleChunks ==
    /\ queryRange = [fromBlock |-> 0, toBlock |-> 0]
    /\ chunkStack = <<>>
    /\ getLogsCalls = <<>>
    /\ queryResult = NoQueryResult

\* The token keys getNFTListings is called with
ListingKeys == {TokenKeyOf("0xNFT", "1"), TokenKeyOf("0xNFT", "2")}

\* failureCache.get(tokenKey) is undefined
NoFailure == [failedAt |-> 0 - 1, error |-> ""]

\* getNFTListings was not called
NoListingsCall == [tokenKey |-> "", requested |-> FALSE, hasBounds |-> FALSE, error |-> ""]

\* getNFTListings was never called
IdleBreaker ==
    /\ failureCache = [k \in ListingKeys |-> NoFailure]
    /\ listingRequests = {}
    /\ lastListings = NoListingsCall

\* No service outside the run is called; every upstream answers
IdleService ==
    /\ IdleChunks
    /\ IdleBreaker
    /\ unanswered = {}

IdleOutside ==
    /\ IdlePosition
    /\ IdleCache
    /\ IdlePage
    /\ IdleModal
    /\ IdleService
    /\ nftContractAddress = "0xNFT"
    /\ noCacheMode = FALSE

InitWorld(Wallets, Deliveries, Rpc, Blocks, Payments, Configured, FeedSet, Clocks) ==
    /\ InitRun(Wallets, Deliveries, Rpc, Blocks, Payments, Configured, FeedSet, Clocks)
    /\ proxyAnswer = AllAnswered
    /\ IdleApply
    /\ IdleOutside

\* The viewing happens after every purchase
ViewTime == AcquiredAtBlock1 + 5000000

(* Spec: every delivery order of every small transfer history, few purchases *)

HistoryRecords == {Raw("A", <<>>, "0xAA", 5, AcquiredAtBlock1 + 120000, "", "")}

\* Every delivery of up to MaxLogs logs with all lookups answering; and, for single-log
\* histories, every way the lookups fail: a provider call throws, getBlock answers null,
\* the marketplace is not configured.
HistoryDeliveries == LogDeliveries(MaxLogs)
SingleLogDeliveries == LogDeliveries(1)
TokenFeedOnly == Feeds(HistoryRecords, {}, 1)
AnyFeed == Feeds(HistoryRecords, HistoryRecords, 1)

Init ==
    \/ InitWorld({"0xaa", "0xAA"}, HistoryDeliveries, {TRUE}, {TRUE}, {0, 7}, {TRUE},
                 TokenFeedOnly, {ViewTime})
    \/ InitWorld({"0xaa", "0xAA"}, SingleLogDeliveries, {TRUE}, BOOLEAN, {0, 7}, BOOLEAN,
                 AnyFeed, {ViewTime})
    \/ InitWorld({"0xaa", "0xAA"}, {<<>>}, {FALSE}, {FALSE}, {0}, BOOLEAN,
                 TokenFeedOnly, {ViewTime})

Spec == Init /\ [][Next]_vars

(* SpecMatch: one history, every list of at most MaxCandidates by-token purchases that *)
(* differ in id (and price), buyer, distance to the acquisition and transaction hash   *)

\* The price a purchase id was sold at (0: the record carries no price)
PriceOf(id) == IF id = "A" THEN 5 ELSE IF id = "B" THEN 0 ELSE 7

\* Purchase "C" is the one recorded with or without the acquisition's transaction hash.
MatchOffsets == {0 - 120000, 120000, 600000, 600001}

MatchRecords ==
    {Raw(id, <<>>, buyer, PriceOf(id), AcquiredAtBlock1 + offset, "", "") :
        id \in {"A", "B", "C"}, buyer \in {"0xAA", "0xbb", "0xCC"}, offset \in MatchOffsets}
    \cup {Raw("C", <<>>, buyer, PriceOf("C"), AcquiredAtBlock1 + offset, "0xT1", "") :
              buyer \in {"0xAA", "0xbb", "0xCC"}, offset \in MatchOffsets}

MatchFeeds == Feeds(MatchRecords, {}, MaxCandidates)

InitMatch ==
    InitWorld({"0xAA"}, {MovedHistory}, {TRUE}, {TRUE}, {0}, {TRUE}, MatchFeeds, {ViewTime})

SpecMatch == InitMatch /\ [][Next]_vars

(* SpecDedupe: one history, every split of at most MaxPurchases records over the three *)
(* responses; the records differ in the fields the dedupe keys are made of             *)

PurchaseTime == AcquiredAtBlock1 + 120000

DedupeTokenRecords ==
    {Raw(id, <<>>, "0xaa", 5, date, ref[1], ref[2]) :
        id \in {"A", "B"}, date \in {PurchaseTime, PurchaseTime + 500},
        ref \in {<<"", "">>, <<"0xT1", "">>, <<"", "A">>}}

\* By-wallet records: with or without a tokenKey of their own (upstream writes the
\* contract address in upper case), one of another token, one without any id.
DedupeWalletRecords ==
    {Raw("C", tk, "", 5, date, "", "") :
        tk \in {<<>>, <<"avalanche", "0xNFT", "1">>}, date \in {PurchaseTime, PurchaseTime + 500}}
    \cup {Raw("C", <<"avalanche", "0xnft", "2">>, "", 5, PurchaseTime, "", ""),
          Raw("", <<>>, "", 5, PurchaseTime + 500, "", "")}

DedupeFeeds == Feeds(DedupeTokenRecords, DedupeWalletRecords, MaxPurchases)

InitDedupe ==
    InitWorld({"0xAA"}, {MovedHistory}, {TRUE}, {TRUE}, {0}, {TRUE}, DedupeFeeds, {ViewTime})

SpecDedupe == InitDedupe /\ [][Next]_vars

(* SpecFallback: responses whose records carry no id of any kind *)

\* Upstream records of token 1 without id, purchaseId, txHash and orderId, at two prices
\* and two dates, and one record with an id
FallbackRecords ==
    {Raw("", <<>>, "0xaa", price, date, "", "") :
        price \in {5, 6}, date \in {PurchaseTime, PurchaseTime + 500}}
    \cup {Raw("A", <<>>, "0xaa", 5, PurchaseTime, "", "")}

FallbackFeeds == Feeds(FallbackRecords, FallbackRecords, MaxCandidates)

InitFallback ==
    InitWorld({"0xAA"}, {MovedHistory}, {TRUE}, {TRUE}, {0}, {TRUE}, FallbackFeeds,
              {ViewTime})

SpecFallback == InitFallback /\ [][Next]_vars

(* SpecMarket: the marketplace is configured or not, and each of the three lookups is  *)
(* answered or fails in one of the four ways; every response holds the purchase        *)

\* The purchase of the token by the viewer, two minutes after the transfer
MarketRecord == Raw("A", <<>>, "0xaa", 5, PurchaseTime, "", "")

MarketFeeds == {<<<<MarketRecord>>, <<MarketRecord>>, <<MarketRecord>>>>}

InitMarket ==
    /\ InitRun({"0xAA"}, {MovedHistory, <<>>}, BOOLEAN, {TRUE}, {0}, BOOLEAN, MarketFeeds,
               {ViewTime})
    /\ proxyAnswer \in [Lookups -> ProxyAnswers]
    /\ IdleApply
    /\ IdleOutside

SpecMarket == InitMarket /\ [][Next]_vars

(* SpecRefresh: the run is a background refresh after a cached acquisition with a      *)
(* purchase price was rendered, or a foreground run with nothing rendered; its last    *)
(* step decides whether the rendered and cached data are replaced                      *)

\* The value setCachedNFTDetail is given: the marketplace-derived and legacy fields
DetailOf(acquisition) ==
    [purchasePriceGun |-> acquisition.purchasePriceGun,
     purchaseDate     |-> acquisition.purchaseDate,
     transferredFrom  |-> acquisition.transferredFrom,
     isFreeTransfer   |-> acquisition.isFreeTransfer]

\* restoredAcquisition of the load effect: the cached fields, no transfer-derived ones
RestoredAcquisition(cached) ==
    LET hasTransferData == \/ cached.purchasePriceGun # Undefined
                           \/ cached.purchaseDate # Undefined
                           \/ cached.isFreeTransfer
    IN  [NoAcquisition EXCEPT
             !.acquisitionSource = IF hasTransferData THEN "localStorage" ELSE "none",
             !.purchasePriceGun  = cached.purchasePriceGun,
             !.purchaseDate      = cached.purchaseDate,
             !.transferredFrom   = cached.transferredFrom,
             !.isFreeTransfer    = cached.isFreeTransfer]

\* shouldUpdate of loadItemDetails
ShouldUpdate(isBackground, existing, fresh, th) ==
    \/ ~isBackground
    \/ existing = NoDetail
    \/ existing.acquisitionSource # fresh.acquisitionSource
    \/ (HasTransferData(th) /\ existing.acquiredAt = Undefined)
    \/ (HasTransferData(th) /\ existing.acquisitionType = "")
    \/ TotalLogsFound(th) > 0

\* The end of the try block of loadItemDetails: if shouldUpdate, setItemPurchaseData
\* and setCachedNFTDetail with the fresh acquisition
ApplyAcquisition ==
    /\ pc = "done"
    /\ pc' = "applied"
    /\ LET shouldUpdate == ShouldUpdate(runIsBackground, runExistingData, freshAcquisition,
                                        transferHistory)
       IN  /\ renderedData' = IF shouldUpdate THEN freshAcquisition ELSE renderedData
           /\ cachedDetail' = IF shouldUpdate THEN DetailOf(freshAcquisition)
                              ELSE cachedDetail
    /\ UNCHANGED <<outsideRun, marketVars, world, runIsBackground, runExistingData,
                   firstIncoming, transferHistory, tokenPurchases, viewerWalletPurchases,
                   currentOwnerPurchases, dedupedPurchases, matchedPurchase,
                   marketplaceMatchMethod, freshAcquisition>>

\* The acquisition an earlier run derived and cached: bought from 0xbb for 5 GUN
CachedPrice == 5

CachedAcquisition ==
    [NoAcquisition EXCEPT !.acquisitionSource = "marketplace",
                          !.acquiredAt = AcquiredAtBlock1,
                          !.fromAddress = "0xbb",
                          !.acquisitionType = "TRANSFER",
                          !.purchasePriceGun = CachedPrice,
                          !.purchaseDate = PurchaseTime,
                          !.transferredFrom = "0xbb"]

\* What is rendered and cached when the run starts, and what its closure holds: the
\* component state of an earlier run, the restored localStorage entry (the closure was
\* made before the restore), or nothing (a foreground run)
InitApply ==
    \/ /\ runIsBackground = TRUE
       /\ renderedData = CachedAcquisition
       /\ runExistingData = CachedAcquisition
       /\ cachedDetail = DetailOf(CachedAcquisition)
    \/ /\ runIsBackground = TRUE
       /\ renderedData = RestoredAcquisition(DetailOf(CachedAcquisition))
       /\ runExistingData = NoDetail
       /\ cachedDetail = DetailOf(CachedAcquisition)
    \/ IdleApply

InitRefresh ==
    /\ InitRun({"0xAA"}, {MovedHistory, <<>>}, BOOLEAN, {TRUE}, {0}, BOOLEAN,
               {<<<<MarketRecord>>, <<>>, <<>>>>, <<<<>>, <<>>, <<>>>>}, {ViewTime})
    /\ proxyAnswer \in {AllAnswered, [l \in Lookups |-> "error"]}
    /\ InitApply
    /\ IdleOutside

NextRefresh ==
    \/ Next
    \/ ApplyAcquisition

SpecRefresh == InitRefresh /\ [][NextRefresh]_vars

(* SpecPosition: the two quality computations of a render, over listing prices and   *)
(* acquisition prices at and around every threshold of the two functions             *)

\* No run of loadItemDetails is looked at
IdleRun ==
    /\ InitRun({"0xaa"}, {<<>>}, {TRUE}, {TRUE}, {0}, {FALSE}, {<<<<>>, <<>>, <<>>>>},
               {ViewTime})
    /\ proxyAnswer = AllAnswered
    /\ IdleApply

\* null, undefined, NaN and a negative number
NoAmounts == {Null, Missing, NaN, Num(0 - 2)}

\* Listing prices (even numbers of units): zero; below and at 0.0001 GUN; a low of 40
\* units with highs at spread ratios 0.25, 0.3, 0.6 and 0.65; references 2.9%, 3% and
\* 3.1% below and above 10000 units; 90, 100, 110 and 200 GUN
ListingPrices ==
    {Num(v) : v \in {0, 40, 50, 52, 64, 66, 100, 140, 200,
                     9690, 9700, 9710, 10290, 10300, 10310}}
        \cup {Gun(90), Gun(100), Gun(110), Gun(200)}

\* Acquisition prices: zero, below and at 0.000001 GUN, 10000 units, 100 GUN
AcquisitionPrices == {Num(0), Num(1), Num(2), Num(10000), Gun(100)}

InitPosition ==
    /\ IdleRun
    /\ acquisitionPriceGun \in NoAmounts \cup AcquisitionPrices
    /\ priceLow \in NoAmounts \cup ListingPrices
    /\ priceHigh \in NoAmounts \cup ListingPrices
    /\ positionLabel = NotRendered
    /\ marketRefDataQuality = "pending"
    /\ IdleCache
    /\ IdlePage
    /\ IdleModal
    /\ IdleService
    /\ nftContractAddress = "0xNFT"
    /\ noCacheMode = FALSE

NextPosition ==
    \/ RenderPositionLabel
    \/ GetMarketReference

SpecPosition == InitPosition /\ [][NextPosition]_vars

-----------------------------------------------------------------------------
(* The NFT detail modal: the load effect and the calls of loadItemDetails it starts.   *)
(* A call of loadItemDetails is a record of what its closure holds and of the await it *)
(* is suspended at.  The effect runs in the commit that follows a change of one of its *)
(* dependencies, before any awaited answer arrives.                                    *)

MaxLoadRuns == 4
MaxEnrichRuns == 2

\* nft.tokenIds of the NFT the modal shows for a wallet
ModalNft(address) == IF address = "0xaa" THEN GroupTokenIds ELSE <<"8">>

\* The component instance that made call r is still mounted
Alive(r) == r > mounted

\* Fault: the spinner is shown by every call
ShowsLoading_Always(isBackgroundRefresh) == TRUE

\* if (!isBackgroundRefresh) setLoadingDetails(true)
ShowsLoading(isBackgroundRefresh) == ~isBackgroundRefresh

\* A call of loadItemDetails(isBackgroundRefresh), suspended at its first await
LoadRun(tokenId, wallet, isBackgroundRefresh, existingData, listings) ==
    [tokenId |-> tokenId, walletAddress |-> wallet,
     isBackgroundRefresh |-> isBackgroundRefresh, existingData |-> existingData,
     listingsData |-> listings, pc |-> "history"]

\* handleNFTClick: the modal is mounted (keyed by the token key) and opened
OpenModal ==
    /\ walletData # NoWallet
    /\ ~loading
    /\ ~isOpen
    /\ ~effectPending
    /\ Len(loadRuns) + 2 <= MaxLoadRuns
    /\ mounted' = Len(loadRuns)
    /\ isOpen' = TRUE
    /\ modalWallet' = walletData.address
    /\ activeTokenId' = ModalNft(walletData.address)[1]
    /\ listingsData' = NoListings
    /\ itemPurchaseData' = [t \in AllTokenIds |-> ""]
    /\ loadingDetails' = FALSE
    /\ effectPending' = TRUE
    /\ UNCHANGED <<runVars, serviceVars, positionVars, cacheVars, pageVars, noCacheMode, loadRuns>>

\* handleCloseModal
CloseModal ==
    /\ isOpen
    /\ ~effectPending
    /\ isOpen' = FALSE
    /\ effectPending' = TRUE
    /\ UNCHANGED <<runVars, serviceVars, positionVars, cacheVars, pageVars, noCacheMode, mounted,
                   modalWallet, activeTokenId, listingsData, itemPurchaseData,
                   loadingDetails, loadRuns>>

\* setActiveItemIndex(index): another item of the grouped NFT becomes active
SwitchItem(tokenId) ==
    /\ isOpen
    /\ ~effectPending
    /\ tokenId \in Range(ModalNft(modalWallet)) \ {activeTokenId}
    /\ Len(loadRuns) + 2 <= MaxLoadRuns
    /\ activeTokenId' = tokenId
    /\ effectPending' = TRUE
    /\ UNCHANGED <<runVars, serviceVars, positionVars, cacheVars, pageVars, noCacheMode, mounted, isOpen,
                   modalWallet, listingsData, itemPurchaseData, loadingDetails, loadRuns>>

\* The load effect: cache check, optimistic render, loadItemDetails(cacheRenderedFirst)
\* up to its first await
RunLoadEffect ==
    /\ effectPending
    /\ effectPending' = FALSE
    /\ IF ~isOpen
       THEN UNCHANGED <<store, cacheResult, itemPurchaseData, loadingDetails, loadRuns>>
       ELSE LET tokenKey == TokenKeyOf(nftContractAddress, activeTokenId)
                got      == IF noCacheMode
                            THEN [result |-> cacheResult, store |-> store]
                            ELSE GetCachedNFTDetail(store, modalWallet, tokenKey, dateNow)
                existing == itemPurchaseData[activeTokenId] # ""
                stateHit == existing /\ ~noCacheMode
                storeHit == ~stateHit /\ ~noCacheMode /\ got.result.hit
                                /\ got.result.value # ""
                cacheRenderedFirst == stateHit \/ storeHit
            IN  /\ store' = got.store
                /\ cacheResult' = got.result
                /\ itemPurchaseData' =
                       IF storeHit
                       THEN [itemPurchaseData EXCEPT ![activeTokenId] = "localStorage"]
                       ELSE itemPurchaseData
                /\ IF nftContractAddress = ""
                   THEN /\ loadRuns' = loadRuns
                        /\ loadingDetails' =
                               IF ~cacheRenderedFirst THEN FALSE
                               ELSE IF ShowsLoading(cacheRenderedFirst) THEN TRUE
                               ELSE loadingDetails
                   ELSE /\ loadRuns' =
                               Append(loadRuns,
                                      LoadRun(activeTokenId, modalWallet, cacheRenderedFirst,
                                              existing, listingsData))
                        /\ loadingDetails' =
                               IF ShowsLoading(cacheRenderedFirst) THEN TRUE
                               ELSE loadingDetails
    /\ UNCHANGED <<runVars, serviceVars, positionVars, dateNow, pageVars, noCacheMode, mounted, isOpen,
                   modalWallet, activeTokenId, listingsData>>

\* STEP 1 answered: getNFTTransferHistory; STEP 2 is skipped when the closure has listings
HistoryLoaded(r) ==
    /\ ~effectPending
    /\ loadRuns[r].pc = "history"
    /\ "rpc" \notin unanswered
    /\ loadRuns' = [loadRuns EXCEPT ![r].pc =
                        IF loadRuns[r].listingsData = NoListings THEN "listings"
                        ELSE "purchases"]
    /\ UNCHANGED <<runVars, serviceVars, positionVars, cacheVars, pageVars, noCacheMode, mounted, isOpen,
                   modalWallet, activeTokenId, listingsData, itemPurchaseData,
                   loadingDetails, effectPending>>

\* STEP 2 answered (or failed): setListingsData({...}), a new object either way
ListingsLoaded(r) ==
    /\ ~effectPending
    /\ loadRuns[r].pc = "listings"
    /\ "listings" \notin unanswered
    /\ loadRuns' = [loadRuns EXCEPT ![r].pc = "purchases"]
    /\ IF Alive(r)
       THEN /\ listingsData' = [tokenId |-> loadRuns[r].tokenId]
            /\ effectPending' = TRUE
       ELSE UNCHANGED <<listingsData, effectPending>>
    /\ UNCHANGED <<runVars, serviceVars, positionVars, cacheVars, pageVars, noCacheMode, mounted, isOpen,
                   modalWallet, activeTokenId, itemPurchaseData, loadingDetails>>

\* STEP 3 answered: the acquisition is built; if shouldUpdate, setItemPurchaseData and
\* setCachedNFTDetail; finally setLoadingDetails(false) unless a background refresh.
\* shouldUpdate is true for a foreground call and for a closure without existing data,
\* and otherwise depends on what was derived; a step that threw skips the update.
PurchasesLoaded(r, derivedDiffers, threw) ==
    /\ ~effectPending
    /\ loadRuns[r].pc = "purchases"
    /\ LET run          == loadRuns[r]
           shouldUpdate == ~threw /\ (~run.isBackgroundRefresh \/ ~run.existingData
                                       \/ derivedDiffers)
       IN  /\ itemPurchaseData' =
                  IF shouldUpdate /\ Alive(r)
                  THEN [itemPurchaseData EXCEPT ![run.tokenId] = "fresh"]
                  ELSE itemPurchaseData
           /\ store' =
                  IF shouldUpdate
                  THEN SetCachedNFTDetail(store, run.walletAddress,
                                          TokenKeyOf(nftContractAddress, run.tokenId),
                                          "acquisition", dateNow)
                  ELSE store
           /\ loadingDetails' =
                  IF ~run.isBackgroundRefresh /\ Alive(r) THEN FALSE ELSE loadingDetails
    /\ loadRuns' = [loadRuns EXCEPT ![r].pc = "done"]
    /\ UNCHANGED <<runVars, serviceVars, positionVars, dateNow, cacheResult, pageVars, noCacheMode, mounted,
                   isOpen, modalWallet, activeTokenId, listingsData, effectPending>>

-----------------------------------------------------------------------------
(* The page: wallet submission and the background enrichment of the wallet's NFTs.     *)
(* A call of enrichNFTsInBackground is a record of its arguments, of the position of   *)
(* its batch loop, and of the enrichSingleNFT calls of the current batch that are      *)
(* still awaiting their lookups.                                                       *)

ENRICHMENT_BATCH_SIZE == 5

\* getCachedNFT: the new cache format first; the legacy format holds nothing
GetCachedNFT(st, wallet, tokenId, clock) ==
    LET got == GetCachedNFTDetail(st, wallet, TokenKeyOf(nftContractAddress, tokenId), clock)
    IN  [cached |-> got.result.hit /\ got.result.value # "", store |-> got.store]

\* setCachedNFT: writes the new cache format
SetCachedNFT(st, wallet, tokenId, data, clock) ==
    SetCachedNFTDetail(st, wallet, TokenKeyOf(nftContractAddress, tokenId), data, clock)

\* getCachedNFT for each NFT of a list in turn: the cached ones, and the store left
RECURSIVE GetCachedAll(_, _, _, _)
GetCachedAll(st, wallet, tokenIds, clock) ==
    IF tokenIds = <<>> THEN [cached |-> {}, store |-> st]
    ELSE LET first == GetCachedNFT(st, wallet, Head(tokenIds), clock)
             rest  == GetCachedAll(first.store, wallet, Tail(tokenIds), clock)
         IN  [cached |-> (IF first.cached THEN {Head(tokenIds)} ELSE {}) \cup rest.cached,
              store  |-> rest.store]

\* nftsNeedingEnrichment.slice(i, i + ENRICHMENT_BATCH_SIZE)
Batch(needing, i) ==
    SubSeq(needing, i + 1,
           IF i + ENRICHMENT_BATCH_SIZE < Len(needing) THEN i + ENRICHMENT_BATCH_SIZE
           ELSE Len(needing))

\* A call of enrichNFTsInBackground that returned before its loop
ReturnedRun(wallet) ==
    [walletAddress |-> wallet, needing |-> <<>>, i |-> 0, inFlight |-> {}, pc |-> "done"]

\* handleWalletSubmit up to its first await
HandleWalletSubmit(address) ==
    /\ ~loading
    /\ Len(enrichRuns) < MaxEnrichRuns
    /\ enrichmentCancelledRef' = TRUE
    /\ loading' = TRUE
    /\ submitAddress' = address
    /\ isOpen' = FALSE
    /\ effectPending' = FALSE
    /\ mounted' = Len(loadRuns)
    /\ UNCHANGED <<runVars, serviceVars, nftPagination, positionVars, cacheVars, walletData, enrichRuns,
                   nftContractAddress, noCacheMode, modalWallet, activeTokenId, listingsData,
                   itemPurchaseData, loadingDetails, loadRuns>>

\* handleWalletSubmit after the first page of NFTs arrived: setWalletData, then
\* enrichNFTsInBackground up to the await of its first batch
WalletLoaded ==
    /\ loading
    /\ loading' = FALSE
    /\ LET address == submitAddress
           nfts    == WalletNfts(address)
       IN  IF nftContractAddress = ""
           THEN /\ walletData' = [address |-> address, enriched |-> {}]
                /\ enrichRuns' = Append(enrichRuns, ReturnedRun(address))
                /\ UNCHANGED <<store, enrichmentCancelledRef>>
           ELSE LET applied  == GetCachedAll(store, address, nfts, dateNow)
                    filtered == GetCachedAll(applied.store, address, nfts, dateNow)
                    needing  == SelectSeq(nfts, LAMBDA t : t \notin filtered.cached)
                    batch    == Batch(needing, 0)
                    started  == GetCachedAll(filtered.store, address, batch, dateNow)
                IN  /\ enrichmentCancelledRef' = FALSE
                    /\ walletData' = [address |-> address, enriched |-> applied.cached]
                    /\ store' = started.store
                    /\ enrichRuns' =
                           Append(enrichRuns,
                                  IF needing = <<>> THEN ReturnedRun(address)
                                  ELSE [walletAddress |-> address, needing |-> needing,
                                        i |-> 0, inFlight |-> Range(batch) \ started.cached,
                                        pc |-> "batch"])
    /\ nftPagination' = [hasMore |-> MoreNfts(submitAddress) # <<>>, isLoadingMore |-> FALSE,
                         moreFor |-> ""]
    /\ UNCHANGED <<runVars, serviceVars, positionVars, dateNow, cacheResult, submitAddress,
                   nftContractAddress, modalVars>>

\* handleWalletSubmit when the fetch failed: the error is shown
WalletFailed ==
    /\ loading
    /\ loading' = FALSE
    /\ UNCHANGED <<runVars, serviceVars, nftPagination, positionVars, cacheVars, walletData, submitAddress,
                   enrichmentCancelledRef, enrichRuns, nftContractAddress, modalVars>>

\* How the lookups of an enrichSingleNFT call settle: the transfer history answers, the
\* 5000 ms of withTimeout pass first (or getNFTTransferHistory answers null), or a
\* lookup rejects
LookupOutcomes == {"answered", "timedOut", "rejected"}

\* The value enrichSingleNFT hands to setCachedNFT: with transferHistory null every
\* field but quantity is undefined
EnrichedData(outcome) == IF outcome = "answered" THEN "enrichment" ELSE "empty"

\* enrichSingleNFT after its lookups settled (answered or timed out): setCachedNFT;
\* a rejected lookup is caught and nothing is written
EnrichSingleSettled(e, tokenId, outcome) ==
    /\ ~effectPending
    /\ enrichRuns[e].pc = "batch"
    /\ tokenId \in enrichRuns[e].inFlight
    /\ enrichRuns' = [enrichRuns EXCEPT ![e].inFlight = @ \ {tokenId}]
    /\ store' = IF outcome = "rejected" THEN store
                ELSE SetCachedNFT(store, enrichRuns[e].walletAddress, tokenId,
                                  EnrichedData(outcome), dateNow)
    /\ UNCHANGED <<runVars, serviceVars, nftPagination, positionVars, dateNow, cacheResult, walletData, loading,
                   submitAddress, enrichmentCancelledRef, nftContractAddress, modalVars>>

\* The Promise.all of a batch resolved: updateCallback unless cancelled, then the next
\* turn of the loop
EnrichBatchSettled(e) ==
    /\ ~effectPending
    /\ enrichRuns[e].pc = "batch"
    /\ enrichRuns[e].inFlight = {}
    /\ LET run     == enrichRuns[e]
           next    == run.i + ENRICHMENT_BATCH_SIZE
           settled == {run.needing[k] : k \in {k \in DOMAIN run.needing : k <= next}}
           batch   == Batch(run.needing, next)
           started == GetCachedAll(store, run.walletAddress, batch, dateNow)
       IN  /\ walletData' =
                  IF ~enrichmentCancelledRef /\ walletData # NoWallet
                         /\ walletData.address = run.walletAddress
                  THEN [walletData EXCEPT !.enriched = @ \cup settled]
                  ELSE walletData
           /\ IF next < Len(run.needing) /\ ~enrichmentCancelledRef
              THEN /\ store' = started.store
                   /\ enrichRuns' = [enrichRuns EXCEPT
                                         ![e].i = next,
                                         ![e].inFlight = Range(batch) \ started.cached]
              ELSE /\ store' = store
                   /\ enrichRuns' = [enrichRuns EXCEPT ![e].pc = "done"]
    /\ UNCHANGED <<runVars, serviceVars, nftPagination, positionVars, dateNow, cacheResult, loading, submitAddress,
                   enrichmentCancelledRef, nftContractAddress, modalVars>>

\* "New Search" and handleWalletDisconnect
ClearWallet ==
    /\ walletData # NoWallet
    /\ ~loading
    /\ enrichmentCancelledRef' = TRUE
    /\ walletData' = NoWallet
    /\ isOpen' = FALSE
    /\ effectPending' = FALSE
    /\ mounted' = Len(loadRuns)
    /\ nftPagination' = NoMorePages
    /\ UNCHANGED <<runVars, serviceVars, positionVars, cacheVars, loading, submitAddress,
                   enrichRuns, nftContractAddress, noCacheMode, modalWallet, activeTokenId,
                   listingsData, itemPurchaseData, loadingDetails, loadRuns>>

\* handleLoadMoreNFTs up to its await of getNFTsPaginated
HandleLoadMore ==
    /\ walletData # NoWallet
    /\ ~loading
    /\ ~nftPagination.isLoadingMore
    /\ nftPagination.hasMore
    /\ Len(enrichRuns) < MaxEnrichRuns
    /\ nftPagination' = [nftPagination EXCEPT !.isLoadingMore = TRUE,
                                              !.moreFor = walletData.address]
    /\ UNCHANGED <<runVars, serviceVars, positionVars, cacheVars, walletData, loading,
                   submitAddress, enrichmentCancelledRef, enrichRuns, nftContractAddress,
                   modalVars>>

\* handleLoadMoreNFTs after the next page arrived: the NFTs are merged, the pagination
\* is updated, and enrichNFTsInBackground runs for the new NFTs up to the await of its
\* first batch
MoreLoaded ==
    /\ nftPagination.isLoadingMore
    /\ LET address == nftPagination.moreFor
           nfts    == MoreNfts(address)
       IN  IF nftContractAddress = "" \/ nfts = <<>>
           THEN /\ enrichRuns' = Append(enrichRuns, ReturnedRun(address))
                /\ UNCHANGED <<store, enrichmentCancelledRef, walletData>>
           ELSE LET applied  == GetCachedAll(store, address, nfts, dateNow)
                    filtered == GetCachedAll(applied.store, address, nfts, dateNow)
                    needing  == SelectSeq(nfts, LAMBDA t : t \notin filtered.cached)
                    batch    == Batch(needing, 0)
                    started  == GetCachedAll(filtered.store, address, batch, dateNow)
                IN  /\ enrichmentCancelledRef' = FALSE
                    /\ walletData' =
                           IF walletData # NoWallet /\ walletData.address = address
                           THEN [walletData EXCEPT !.enriched = @ \cup applied.cached]
                           ELSE walletData
                    /\ store' = started.store
                    /\ enrichRuns' =
                           Append(enrichRuns,
                                  IF needing = <<>> THEN ReturnedRun(address)
                                  ELSE [walletAddress |-> address, needing |-> needing,
                                        i |-> 0, inFlight |-> Range(batch) \ started.cached,
                                        pc |-> "batch"])
    /\ nftPagination' = [hasMore |-> FALSE, isLoadingMore |-> FALSE, moreFor |-> ""]
    /\ UNCHANGED <<runVars, serviceVars, positionVars, dateNow, cacheResult, loading,
                   submitAddress, nftContractAddress, modalVars>>

\* handleLoadMoreNFTs when getNFTsPaginated threw
MoreFailed ==
    /\ nftPagination.isLoadingMore
    /\ nftPagination' = [nftPagination EXCEPT !.isLoadingMore = FALSE, !.moreFor = ""]
    /\ UNCHANGED <<runVars, serviceVars, positionVars, cacheVars, walletData, loading,
                   submitAddress, enrichmentCancelledRef, enrichRuns, nftContractAddress,
                   modalVars>>

-----------------------------------------------------------------------------
(* SpecModal: a wallet is loaded; the modal is opened on its grouped NFT, switched     *)
(* between the two items and closed, while the lookups of earlier calls are pending.  *)
(* SpecPage: wallets are submitted and cleared while enrichment is in flight.         *)

\* The clock of the session, and the stores it starts from: empty, a live entry and an
\* expired entry for token 1 of wallet 0xaa
SessionTime == 2 * DEFAULT_TTL_SECONDS * 1000

SessionStores ==
    LET key == BuildNftDetailCacheKey("0xaa", TokenKeyOf("0xNFT", "1"))
    IN  {EmptyStore,
         CacheSet(EmptyStore, key, SCHEMA_VERSION_NFT_DETAIL, "acquisition",
                  DEFAULT_TTL_SECONDS, SessionTime - 1000),
         CacheSet(EmptyStore, key, SCHEMA_VERSION_NFT_DETAIL, "acquisition",
                  DEFAULT_TTL_SECONDS, 0)}

\* Wallet 0xaa is shown; its enrichment is not looked at
InitModal ==
    /\ IdleRun
    /\ IdlePosition
    /\ store \in SessionStores
    /\ dateNow = SessionTime
    /\ cacheResult = NoResult
    /\ walletData = [address |-> "0xaa", enriched |-> {}]
    /\ loading = FALSE
    /\ submitAddress = "0xaa"
    /\ enrichmentCancelledRef = FALSE
    /\ enrichRuns = <<>>
    /\ nftPagination = NoMorePages
    /\ IdleModal
    /\ IdleService
    /\ nftContractAddress \in {"0xNFT", ""}
    /\ noCacheMode \in BOOLEAN

NextModal ==
    \/ OpenModal
    \/ CloseModal
    \/ \E tokenId \in AllTokenIds : SwitchItem(tokenId)
    \/ RunLoadEffect
    \/ \E r \in DOMAIN loadRuns : HistoryLoaded(r)
    \/ \E r \in DOMAIN loadRuns : ListingsLoaded(r)
    \/ \E r \in DOMAIN loadRuns, derivedDiffers \in BOOLEAN, threw \in BOOLEAN :
           PurchasesLoaded(r, derivedDiffers, threw)

SpecModal == InitModal /\ [][NextModal]_vars

\* The modal's calls when the listing upstream may never answer. The listing request is
\* a fetch of /api/opensea/orders, which itself fetches the OpenSea API; neither carries
\* a timeout or an abort signal, so the await of STEP 2 ends only with an answer.
SilentUpstreams == {{}, {"listings"}}

InitStall ==
    /\ IdleRun
    /\ IdlePosition
    /\ store = EmptyStore
    /\ dateNow = SessionTime
    /\ cacheResult = NoResult
    /\ walletData = [address |-> "0xaa", enriched |-> {}]
    /\ loading = FALSE
    /\ submitAddress = "0xaa"
    /\ enrichmentCancelledRef = FALSE
    /\ enrichRuns = <<>>
    /\ nftPagination = NoMorePages
    /\ IdleModal
    /\ IdleChunks
    /\ IdleBreaker
    /\ unanswered \in SilentUpstreams
    /\ nftContractAddress = "0xNFT"
    /\ noCacheMode = FALSE

\* A continuation whose awaited promise has settled is run by the event loop, and a
\* pending effect is run by React after the render: each step that stays possible is
\* eventually taken. Nothing obliges the user to click.
StallFairness ==
    /\ WF_vars(RunLoadEffect)
    /\ \A r \in 1..MaxLoadRuns :
           /\ WF_vars(r \in DOMAIN loadRuns /\ HistoryLoaded(r))
           /\ WF_vars(r \in DOMAIN loadRuns /\ ListingsLoaded(r))
           /\ WF_vars(r \in DOMAIN loadRuns
                         /\ \E derivedDiffers \in BOOLEAN, threw \in BOOLEAN :
                                PurchasesLoaded(r, derivedDiffers, threw))

SpecStall == InitStall /\ [][NextModal]_vars /\ StallFairness

InitPage ==
    /\ IdleRun
    /\ IdlePosition
    /\ store \in SessionStores
    /\ dateNow = SessionTime
    /\ cacheResult = NoResult
    /\ IdlePage
    /\ IdleModal
    /\ IdleService
    /\ nftContractAddress \in {"0xNFT", ""}
    /\ noCacheMode = FALSE

NextPage ==
    \/ \E address \in PageWallets : HandleWalletSubmit(address)
    \/ WalletLoaded
    \/ WalletFailed
    \/ \E e \in DOMAIN enrichRuns, tokenId \in AllTokenIds, outcome \in LookupOutcomes :
           EnrichSingleSettled(e, tokenId, outcome)
    \/ \E e \in DOMAIN enrichRuns : EnrichBatchSettled(e)
    \/ ClearWallet
    \/ HandleLoadMore
    \/ MoreLoaded
    \/ MoreFailed

SpecPage == InitPage /\ [][NextPage]_vars

-----------------------------------------------------------------------------
(* queryLogsInChunks: one step per provider.getLogs call and one per return of a      *)
(* (nested) call.  A call is a record of its arguments and locals; chunkStack holds    *)
(* the calls that have not returned, the innermost last.                               *)

\* chunkSize: number = 100000
DefaultChunkSize == 100000

\* if (chunkSize > 10000): a failed chunk above this size is queried again in parts
RetryAbove == 10000

\* At most this many getLogs calls of a query fail
MaxFailures == 4

Min(a, b) == IF a < b THEN a ELSE b

\* The Transfer logs of the token on the chain, in chain order; block 6253 holds two
ChainLog(blockNumber, index) == [blockNumber |-> blockNumber, index |-> index]

ChainLogs ==
    <<ChainLog(3, 0), ChainLog(6252, 0), ChainLog(6253, 0), ChainLog(6253, 1),
      ChainLog(25003, 0), ChainLog(100003, 0)>>

\* provider.getLogs({...filter, fromBlock, toBlock}) when it answers
GetLogsAnswer(fromBlock, toBlock) ==
    SelectSeq(ChainLogs, LAMBDA l : fromBlock <= l.blockNumber /\ l.blockNumber <= toBlock)

\* Fault: a failed chunk is queried again in halves
RetryChunkSize_Half(chunkSize) == chunkSize \div 2

\* Math.floor(chunkSize / 4)
RetryChunkSize(chunkSize) == chunkSize \div 4

\* Fault: the chunk ends where the next one starts
ChunkEnd_Overlapping(start, chunkSize, toBlock) == Min(start + chunkSize, toBlock)

\* const end = Math.min(start + chunkSize - 1, toBlock)
ChunkEnd(start, chunkSize, toBlock) == Min(start + chunkSize - 1, toBlock)

\* A call of queryLogsInChunks at the head of its loop
QueryCall(fromBlock, toBlock, chunkSize) ==
    [start |-> fromBlock, toBlock |-> toBlock, chunkSize |-> chunkSize, allLogs |-> <<>>,
     blockRanges |-> <<>>, chunksQueried |-> 0]

FailedCalls == SelectSeq(getLogsCalls, LAMBDA c : c.failed)

\* One turn of the loop of the innermost call: getLogs answers or throws
GetLogs(fails) ==
    /\ chunkStack # <<>>
    /\ LET d    == Len(chunkStack)
           call == chunkStack[d]
           end  == ChunkEnd(call.start, call.chunkSize, call.toBlock)
           logs == GetLogsAnswer(call.start, end)
       IN  /\ call.start <= call.toBlock
           /\ fails => Len(FailedCalls) < MaxFailures
           /\ getLogsCalls' = Append(getLogsCalls,
                                     [fromBlock |-> call.start, toBlock |-> end,
                                      chunkSize |-> call.chunkSize, failed |-> fails])
           /\ chunkStack' =
                  IF ~fails
                  THEN [chunkStack EXCEPT ![d] =
                            [call EXCEPT !.chunksQueried = @ + 1,
                                         !.blockRanges = Append(@, [from |-> call.start,
                                                                    to |-> end,
                                                                    logsFound |-> Len(logs)]),
                                         !.allLogs = @ \o logs,
                                         !.start = @ + call.chunkSize]]
                  ELSE IF call.chunkSize > RetryAbove
                  THEN Append([chunkStack EXCEPT ![d].chunksQueried = @ + 1],
                              QueryCall(call.start, end, RetryChunkSize(call.chunkSize)))
                  ELSE [chunkStack EXCEPT ![d] =
                            [call EXCEPT !.chunksQueried = @ + 1,
                                         !.blockRanges = Append(@, [from |-> call.start,
                                                                    to |-> end,
                                                                    logsFound |-> 0 - 1]),
                                         !.start = @ + call.chunkSize]]
    /\ UNCHANGED <<runVars, marketVars, applyVars, positionVars, cacheVars, pageVars,
                   modalVars, breakerVars, unanswered, queryRange, queryResult>>

\* The loop of the innermost call is over: the logs are sorted and the call returns, to
\* the catch block of the call that made it or to getTransferEvents
QueryReturns ==
    /\ chunkStack # <<>>
    /\ LET d      == Len(chunkStack)
           call   == chunkStack[d]
           result == [returned |-> TRUE, logs |-> SortLogs(call.allLogs),
                      chunksQueried |-> call.chunksQueried,
                      blockRanges |-> call.blockRanges]
       IN  /\ call.start > call.toBlock
           /\ IF d = 1
              THEN /\ queryResult' = result
                   /\ chunkStack' = <<>>
              ELSE /\ queryResult' = queryResult
                   /\ chunkStack' =
                          [k \in 1..(d - 1) |->
                              IF k < d - 1 THEN chunkStack[k]
                              ELSE [chunkStack[k] EXCEPT
                                        !.blockRanges = @ \o result.blockRanges,
                                        !.allLogs = @ \o result.logs,
                                        !.chunksQueried = @ + result.chunksQueried - 1,
                                        !.start = @ + chunkStack[k].chunkSize]]
    /\ UNCHANGED <<runVars, marketVars, applyVars, positionVars, cacheVars, pageVars,
                   modalVars, breakerVars, unanswered, queryRange, getLogsCalls>>

\* The block ranges getTransferEvents queries: from the start block to the current block
QueryRanges ==
    {[fromBlock |-> f, toBlock |-> f + n - 1] : f \in {0, 3}, n \in {1, 6250, 30000, 100001}}

InitChunks ==
    /\ IdleRun
    /\ IdlePosition
    /\ IdleCache
    /\ IdlePage
    /\ IdleModal
    /\ IdleBreaker
    /\ unanswered = {}
    /\ nftContractAddress = "0xNFT"
    /\ noCacheMode = FALSE
    /\ queryRange \in QueryRanges
    /\ chunkStack = <<QueryCall(queryRange.fromBlock, queryRange.toBlock, DefaultChunkSize)>>
    /\ getLogsCalls = <<>>
    /\ queryResult = NoQueryResult

NextChunks ==
    \/ \E fails \in BOOLEAN : GetLogs(fails)
    \/ QueryReturns

SpecChunks == InitChunks /\ [][NextChunks]_vars

-----------------------------------------------------------------------------
(* Properties *)

Matched == pc \in {"build", "done"}

\* The merged list the dedupe filter ran on
AllPurchases ==
    MergePurchases(tokenPurchases, viewerWalletPurchases, currentOwnerPurchases, TokenKey)

\* The current on-chain owner: the recipient of the last transfer in chain order
OnChainOwner ==
    LET last == CHOOSE l \in Range(chainLogs) :
                    \A m \in Range(chainLogs) : LogCompare(m, l) <= 0
    IN  IF chainLogs = <<>> THEN "" ELSE ToLowerCase(last.to)

IsIdentity(p) ==
    \/ ToLowerCase(p.buyerAddress) = ToLowerCase(walletAddress)
    \/ ToLowerCase(p.buyerAddress) = OnChainOwner

Distance(p) == Abs(p.purchaseDateIso - BlockTimestamp(firstIncoming.blockNumber) * 1000)

InWindow == {p \in Range(dedupedPurchases) : Distance(p) <= 600000}

\* C1: the matching step selects at most one purchase: matchedPurchase is null or is
\* exactly one element of the deduplicated candidate list, and the price stored in the
\* acquisition record is the price of that element (no price when nothing matched).
C1_AtMostOneMatch ==
    /\ Matched =>
          \/ matchedPurchase = NoPurchase
          \/ Cardinality({i \in DOMAIN dedupedPurchases :
                              dedupedPurchases[i] = matchedPurchase}) = 1
    /\ pc = "done" =>
          freshAcquisition.purchasePriceGun =
              IF matchedPurchase = NoPurchase THEN Undefined ELSE matchedPurchase.priceGun

\* C1 witness: two candidates survive dedupe, one of them is selected and its price stored
C1_Witness ==
    /\ pc = "done"
    /\ Len(dedupedPurchases) = 2
    /\ Len(AllPurchases) = 2
    /\ matchedPurchase = dedupedPurchases[2]
    /\ freshAcquisition.purchasePriceGun = 7
    /\ dedupedPurchases[1].priceGun = 5

\* C2: if a candidate's txHash equals the transaction hash of the acquisition (the
\* wallet's first incoming transfer), that candidate is selected with method 'txHash',
\* whatever the time window or the other candidates say.
C2_ExactTxFirst ==
    (Matched /\ \E p \in Range(dedupedPurchases) :
                    p.txHash # "" /\ p.txHash = firstIncoming.transactionHash)
        => /\ matchedPurchase # NoPurchase
           /\ matchedPurchase.txHash = firstIncoming.transactionHash
           /\ marketplaceMatchMethod = "txHash"

\* C3: with two or more candidates in the window, if some candidate's buyer is the viewer
\* wallet or the current owner (compared case-insensitively) the selected purchase is an
\* identity-matching candidate at minimum distance among the identity-matching ones;
\* if none is, it is a candidate at minimum distance among all candidates in the window.
C3_IdentityTiebreak ==
    (Matched /\ Cardinality(InWindow) >= 2) =>
        LET identity == {p \in InWindow : IsIdentity(p)}
            pool     == IF identity # {} THEN identity ELSE InWindow
        IN  /\ matchedPurchase \in pool
            /\ \A q \in pool : Distance(matchedPurchase) <= Distance(q)

\* C3 witness: a candidate bought by the current owner 10 minutes away is selected over
\* a candidate of a stranger 2 minutes away
C3_Witness ==
    /\ Matched
    /\ Cardinality(InWindow) = 2
    /\ matchedPurchase \in InWindow
    /\ matchedPurchase.buyerAddress = "0xcc"
    /\ Distance(matchedPurchase) = 600000
    /\ \E q \in InWindow : ~IsIdentity(q) /\ Distance(q) = 120000

\* Every ordering of a list
Orderings(list) ==
    {[i \in DOMAIN list |-> list[f[i]]] : f \in Permutations(DOMAIN list)}

\* The order of purchase ids
IdRank(id) == IF id = "A" THEN 1 ELSE IF id = "B" THEN 2 ELSE IF id = "C" THEN 3 ELSE 4

\* C4: the selected purchase does not depend on the order of the candidate list, and
\* candidates that tie on identity match and on time distance are resolved by ascending
\* purchaseId.
C4_OrderIndependent ==
    Matched =>
        /\ \A other \in Orderings(dedupedPurchases) :
               other # <<>> =>
                   MatchPurchase(other, AcquiredAt(transferHistory),
                                 ViewerWalletLower(walletAddress),
                                 CurrentOwnerLower(transferHistory)).purchase = matchedPurchase
        /\ \A q \in InWindow :
               (matchedPurchase # NoPurchase
                    /\ IsIdentity(q) = IsIdentity(matchedPurchase)
                    /\ Distance(q) = Distance(matchedPurchase))
                   => IdRank(matchedPurchase.purchaseId) <= IdRank(q.purchaseId)

\* C5: when no exact-transaction match applies, the result is NONE exactly when no
\* candidate is within 10 minutes of acquiredAt; a single candidate in the window is
\* selected with method 'timeWindow'; a selected purchase is never more than 10 minutes
\* away; and the recorded method is 'none' exactly when no purchase was selected.
C5_TimeWindow ==
    (Matched /\ \A p \in Range(dedupedPurchases) :
                    p.txHash = "" \/ p.txHash # firstIncoming.transactionHash)
        => /\ (matchedPurchase = NoPurchase) <=> (InWindow = {})
           /\ \A p \in InWindow :
                  InWindow = {p} => matchedPurchase = p /\ marketplaceMatchMethod = "timeWindow"
           /\ matchedPurchase # NoPurchase => Distance(matchedPurchase) <= 600000
           /\ (marketplaceMatchMethod = "none") <=> (matchedPurchase = NoPurchase)

\* C5 witness: one candidate exactly 10 minutes away is selected while another, one
\* millisecond further, is not in the window
C5_Witness ==
    /\ Matched
    /\ Len(dedupedPurchases) = 2
    /\ \A p \in Range(dedupedPurchases) : p.txHash = ""
    /\ Cardinality(InWindow) = 1
    /\ matchedPurchase \in InWindow
    /\ Distance(matchedPurchase) = 600000
    /\ marketplaceMatchMethod = "timeWindow"

SharesKey(p, q) == DedupeKeys(p) \cap DedupeKeys(q) # {}

\* C6: after merge + dedupe no two retained candidates share a purchaseId, a txHash or
\* an orderId; two records with different purchaseId and the same txHash collapse to one
\* retained record; and every removed record shares a key with a retained record.
C6_DedupeKeysUnique ==
    Matched =>
        /\ \A i, j \in DOMAIN dedupedPurchases :
               i # j =>
                   LET p == dedupedPurchases[i]
                       q == dedupedPurchases[j]
                   IN  /\ p.purchaseId # q.purchaseId
                       /\ p.txHash # "" => p.txHash # q.txHash
                       /\ p.orderId # "" => p.orderId # q.orderId
        /\ (/\ Len(AllPurchases) = 2
            /\ AllPurchases[1].purchaseId # AllPurchases[2].purchaseId
            /\ AllPurchases[1].txHash # ""
            /\ AllPurchases[1].txHash = AllPurchases[2].txHash)
               => Len(dedupedPurchases) = 1
        /\ \A r \in Range(AllPurchases) \ Range(dedupedPurchases) :
               \E p \in Range(dedupedPurchases) : SharesKey(r, p)
        /\ Range(dedupedPurchases) \subseteq Range(AllPurchases)

\* C6 witness: purchases "A" and "B" of the same transaction, fetched by token, collapse
\* to the first of them
C6_Witness ==
    /\ Matched
    /\ Len(AllPurchases) = 2
    /\ AllPurchases[1].purchaseId = "A"
    /\ AllPurchases[2].purchaseId = "B"
    /\ AllPurchases[1].txHash = "0xT1"
    /\ AllPurchases[2].txHash = "0xT1"
    /\ AllPurchases[1].purchaseDateIso # AllPurchases[2].purchaseDateIso
    /\ AllPurchases[1].orderId = ""
    /\ AllPurchases[2].orderId = ""
    /\ dedupedPurchases = <<AllPurchases[1]>>

\* C7: dedupe is idempotent: the dedupe filter applied to the deduplicated list returns
\* it unchanged (same records, same order).
C7_DedupeIdempotent ==
    Matched => Dedupe(dedupedPurchases) = dedupedPurchases

\* C7 witness: dedupe removed the middle one of three merged records and kept two
C7_Witness ==
    /\ Matched
    /\ Len(AllPurchases) = 3
    /\ dedupedPurchases = <<AllPurchases[1], AllPurchases[3]>>
    /\ SharesKey(AllPurchases[1], AllPurchases[2])
    /\ Dedupe(dedupedPurchases) = dedupedPurchases

\* C8: two candidates with the same tokenKey (contract address compared case-normalized),
\* the same price and purchase timestamps within the same second are one purchase: they
\* are never both retained.
C8_CompositeKey ==
    Matched =>
        \A i, j \in DOMAIN dedupedPurchases :
            i # j =>
                LET p == dedupedPurchases[i]
                    q == dedupedPurchases[j]
                IN  ~(/\ TokenKeyLower(p.tokenKey) = TokenKeyLower(q.tokenKey)
                      /\ p.priceGun = q.priceGun
                      /\ p.purchaseDateIso \div 1000 = q.purchaseDateIso \div 1000)

\* C9: the acquisition record's type is MINT exactly when the wallet's first incoming
\* transfer comes from the zero address, and TRANSFER when it comes from another address.
C9_MintClassification ==
    (pc = "done" /\ firstIncoming # NoEvent) =>
        /\ (freshAcquisition.acquisitionType = "MINT") <=> (firstIncoming.from = ZERO_ADDRESS)
        /\ firstIncoming.from # ZERO_ADDRESS => freshAcquisition.acquisitionType = "TRANSFER"

\* The delivered logs that transfer the token to the wallet
IncomingLogs == {l \in Range(chainLogs) : ToLowerCase(l.to) = ToLowerCase(walletAddress)}

\* C10: the acquisition of a wallet is the transfer to the wallet that is smallest in
\* (blockNumber, logIndex) order, whatever the order the logs were delivered in and
\* however often the wallet received the token; the timestamp of its block is the
\* acquiredAt that retrieval and matching use.
C10_FirstIncoming ==
    (pc # "start" /\ rpcOk) =>
        IF IncomingLogs = {}
        THEN firstIncoming = NoEvent /\ AcquiredAt(transferHistory) = Undefined
        ELSE /\ \E l \in IncomingLogs :
                    /\ firstIncoming = ParseLog(l)
                    /\ \A m \in IncomingLogs :
                           \/ l.blockNumber < m.blockNumber
                           \/ l.blockNumber = m.blockNumber /\ l.index <= m.index
             /\ AcquiredAt(transferHistory) \in
                    {Undefined, BlockTimestamp(firstIncoming.blockNumber) * 1000}
             /\ blockKnown =>
                    AcquiredAt(transferHistory) = BlockTimestamp(firstIncoming.blockNumber) * 1000
             /\ pc = "done" =>
                    freshAcquisition.acquiredAt = AcquiredAt(transferHistory)

\* C10 witness: the wallet received the token, gave it away and received it again; the
\* later transfer was delivered first, and the acquisition is the earlier one
C10_Witness ==
    /\ pc = "done"
    /\ Len(chainLogs) = 3
    /\ Cardinality(IncomingLogs) = 2
    /\ ToLowerCase(chainLogs[1].to) = ToLowerCase(walletAddress)
    /\ chainLogs[1].blockNumber = 2
    /\ firstIncoming.blockNumber = 1
    /\ firstIncoming.logIndex = 0
    /\ freshAcquisition.acquiredAt = BlockTimestamp(1) * 1000

\* C11: when no delivered log transfers the token to the wallet (there may be logs
\* between other holders), no acquisition is derived for the wallet: no acquiredAt, no
\* MINT/TRANSFER kind, no free-transfer flag, and the matcher selects nothing.
C11_NotFound ==
    (pc = "done" /\ rpcOk /\ IncomingLogs = {}) =>
        /\ freshAcquisition.acquiredAt = Undefined
        /\ freshAcquisition.acquisitionType = ""
        /\ ~freshAcquisition.isFreeTransfer
        /\ matchedPurchase = NoPurchase
        /\ marketplaceMatchMethod = "none"

-----------------------------------------------------------------------------
(* Position label and data quality: properties *)

Rendered == positionLabel # NotRendered

\* A bound is present when it is a price: a number that is not negative
Present(x) == x.kind = "number" /\ x.value >= 0

\* The acquisition price is absent, not a number, or below 0.000001 GUN
NoCostBasis ==
    \/ acquisitionPriceGun.kind # "number"
    \/ acquisitionPriceGun.value < UnitsPerGun \div 1000000

NoMarketRef == ~Present(priceLow) /\ ~Present(priceHigh)

\* C12: getPositionLabel returns exactly one of the five states, resolved in a fixed
\* order: NO_MARKET_REF iff neither bound is present (then both pnl fields, the market
\* reference and the data quality are null); otherwise NO_COST_BASIS iff the acquisition
\* price is absent, not a number or below 0.000001 (then the market reference is
\* reported and both pnl fields are null); otherwise UP, DOWN or FLAT with both pnl
\* fields set.  low = 100, high = 200 and no acquisition price give NO_COST_BASIS with
\* market reference 150.
C12_PositionState ==
    Rendered =>
        /\ positionLabel.state \in {"NO_MARKET_REF", "NO_COST_BASIS", "UP", "DOWN", "FLAT"}
        /\ (positionLabel.state = "NO_MARKET_REF") <=> NoMarketRef
        /\ positionLabel.state = "NO_MARKET_REF" =>
               /\ positionLabel.pnlPct.isNull
               /\ positionLabel.pnlGun = Null
               /\ positionLabel.marketRefGun = Null
               /\ positionLabel.dataQuality = "null"
        /\ (positionLabel.state = "NO_COST_BASIS") <=> (~NoMarketRef /\ NoCostBasis)
        /\ positionLabel.state = "NO_COST_BASIS" =>
               /\ positionLabel.pnlPct.isNull
               /\ positionLabel.pnlGun = Null
               /\ positionLabel.marketRefGun.kind = "number"
        /\ positionLabel.state \in {"UP", "DOWN", "FLAT"} =>
               /\ ~positionLabel.pnlPct.isNull
               /\ positionLabel.pnlGun.kind = "number"
               /\ positionLabel.marketRefGun.kind = "number"
        /\ (priceLow = Gun(100) /\ priceHigh = Gun(200) /\ acquisitionPriceGun = Null) =>
               /\ positionLabel.state = "NO_COST_BASIS"
               /\ positionLabel.marketRefGun = Gun(150)

\* C12 witness: nothing is known at all (no bound, no acquisition price), and the label
\* is NO_MARKET_REF, not NO_COST_BASIS
C12_Witness ==
    /\ Rendered
    /\ priceLow = Missing
    /\ priceHigh = Null
    /\ acquisitionPriceGun = Num(1)
    /\ positionLabel.state = "NO_MARKET_REF"

\* C13: the market reference is the midpoint of the two bounds when both are present,
\* the present bound when one is, and null when none is; the midpoint of low <= high
\* lies in [low, high].
C13_MarketReference ==
    Rendered =>
        LET ref == positionLabel.marketRefGun
        IN  /\ (Present(priceLow) /\ Present(priceHigh)) =>
                   /\ ref.kind = "number"
                   /\ 2 * ref.value = priceLow.value + priceHigh.value
                   /\ priceLow.value <= priceHigh.value =>
                          (priceLow.value <= ref.value /\ ref.value <= priceHigh.value)
            /\ (Present(priceLow) /\ ~Present(priceHigh)) => ref = priceLow
            /\ (~Present(priceLow) /\ Present(priceHigh)) => ref = priceHigh
            /\ NoMarketRef => ref = Null

\* C13 witness: only the high bound is present, and it is the reference
C13_Witness ==
    /\ Rendered
    /\ priceLow = NaN
    /\ priceHigh = Gun(110)
    /\ positionLabel.marketRefGun = Gun(110)

\* The label of spreadRatio = (high - low) / max(low, 1e-9) for amounts low, high >= 0:
\* a low of at least one unit is its own maximum; with low = 0 the ratio is 0 or at
\* least 500
ExpectedQuality(low, high) ==
    IF low >= 1
    THEN IF 4 * (high - low) <= low THEN "strong"
         ELSE IF 5 * (high - low) <= 3 * low THEN "fair"
         ELSE "limited"
    ELSE IF high <= 0 THEN "strong" ELSE "limited"

\* C14: every data-quality label of the modal is non-null iff both bounds are present,
\* is strong / fair / limited for spreadRatio <= 0.25 / <= 0.60 / above, with
\* spreadRatio = (high - low) / max(low, 1e-9), and the label of getPositionLabel and
\* the label of calculateDataQuality agree for every pair of present bounds.
C14_DataQuality ==
    (Rendered /\ marketRefDataQuality # "pending") =>
        LET both == Present(priceLow) /\ Present(priceHigh)
        IN  /\ (positionLabel.dataQuality # "null") <=> both
            /\ (marketRefDataQuality # "null") <=> both
            /\ both =>
                   /\ positionLabel.dataQuality =
                          ExpectedQuality(priceLow.value, priceHigh.value)
                   /\ marketRefDataQuality = positionLabel.dataQuality
            /\ (priceLow = Gun(90) /\ priceHigh = Gun(110)) =>
                   positionLabel.dataQuality = "strong"

\* The negated quotient
Negated(r) == [r EXCEPT !.num = 0 - r.num]

\* C15: with a valid acquisition price a and a market reference m, pnlRatio is
\* (m - a) / max(a, 1e-9), and the state is FLAT iff |pnlRatio| < 0.03, UP iff
\* pnlRatio >= 0.03, DOWN iff pnlRatio <= -0.03; the position mirrored at the
\* acquisition price is FLAT exactly when the position is.
C15_Deadband ==
    (Rendered /\ ~NoMarketRef /\ ~NoCostBasis) =>
        LET a      == acquisitionPriceGun.value
            m      == positionLabel.marketRefGun.value
            r      == positionLabel.pnlPct
            mirror == GetPositionLabel(acquisitionPriceGun, Num(2 * a - m), Missing)
        IN  /\ r = Quotient(m - a, Rational(a, 1))
            /\ positionLabel.pnlGun = Num(m - a)
            /\ (positionLabel.state = "FLAT") <=> LessThan(MathAbs(r), 3, 100)
            /\ (positionLabel.state = "UP") <=> ~LessThan(r, 3, 100)
            /\ (positionLabel.state = "DOWN") <=> ~LessThan(Negated(r), 3, 100)
            /\ Abs(m - a) <= 20000000 =>
                   /\ (positionLabel.state = "FLAT") <=> (100 * Abs(m - a) < 3 * a)
                   /\ (positionLabel.state = "UP") <=> (100 * (m - a) >= 3 * a)
                   /\ (positionLabel.state = "DOWN") <=> (100 * (m - a) <= 0 - 3 * a)
            /\ 2 * a - m >= 0 =>
                   /\ (mirror.state = "FLAT") <=> (positionLabel.state = "FLAT")
                   /\ (mirror.state = "DOWN") <=> (positionLabel.state = "UP")

\* C15 witness: the reference is exactly 3% above the acquisition price: UP, while 2.9%
\* above is FLAT and 3% below is DOWN
C15_Witness ==
    /\ Rendered
    /\ acquisitionPriceGun = Num(10000)
    /\ priceLow = Num(10300)
    /\ priceHigh = Missing
    /\ positionLabel.state = "UP"
    /\ GetPositionLabel(acquisitionPriceGun, Num(10290), Missing).state = "FLAT"
    /\ GetPositionLabel(acquisitionPriceGun, Num(9700), Missing).state = "DOWN"

QualityRank(q) == IF q = "strong" THEN 3 ELSE IF q = "fair" THEN 2 ELSE 1

\* C16: for a fixed present low and present highs high1 <= high2, the spread ratio of
\* (low, high2) is not smaller than that of (low, high1), and the label of (low, high2)
\* is never better than that of (low, high1) in the order strong > fair > limited.
C16_QualityMonotonic ==
    (Rendered /\ Present(priceLow) /\ Present(priceHigh)) =>
        \A high2 \in ListingPrices :
            priceHigh.value <= high2.value =>
                LET r1 == SpreadRatio(priceLow.value, priceHigh.value, EPSILON)
                    r2 == SpreadRatio(priceLow.value, high2.value, EPSILON)
                IN  /\ r1.den = r2.den
                    /\ r1.num <= r2.num
                    /\ QualityRank(GetPositionLabel(acquisitionPriceGun, priceLow,
                                                    high2).dataQuality)
                           <= QualityRank(positionLabel.dataQuality)

\* C16 witness: low = 40 units; the label is fair at high = 52, strong below it at
\* high = 50 and limited above it at high = 66
C16_Witness ==
    /\ Rendered
    /\ priceLow = Num(40)
    /\ priceHigh = Num(52)
    /\ positionLabel.dataQuality = "fair"
    /\ LabelDataQuality(priceLow, Num(50)) = "strong"
    /\ LabelDataQuality(priceLow, Num(66)) = "limited"

-----------------------------------------------------------------------------
(* SpecCache: cacheGet and cacheSet on two keys of the NFT detail cache, over entries   *)
(* that are missing, corrupted, of an older schema version, live and expired           *)

ClockSlack == 2

\* The keys looked at, and the last instant of the clock
CacheKeysUsed ==
    {BuildNftDetailCacheKey("0xaa", TokenKeyOf("0xNFT", t)) : t \in {"1", "2"}}

LastInstant == DEFAULT_TTL_SECONDS * 1000 + ClockSlack

\* What an earlier session may have left under a key: nothing, text that does not
\* parse, an entry of schema version v2
LeftOvers ==
    {NoEntry, Corrupt, Entry("v2", "acquisition", 0, DEFAULT_TTL_SECONDS * 1000)}

InitCache ==
    /\ IdleRun
    /\ IdlePosition
    /\ \E left \in [CacheKeysUsed -> LeftOvers] :
           store = [k \in CacheKeys |-> IF k \in CacheKeysUsed THEN left[k] ELSE NoEntry]
    /\ dateNow = 0
    /\ cacheResult = NoResult
    /\ IdlePage
    /\ IdleModal
    /\ IdleService
    /\ nftContractAddress = "0xNFT"
    /\ noCacheMode = FALSE

\* cacheGet(fullKey, SCHEMA_VERSIONS.nftDetail)
CacheGetStep(fullKey) ==
    /\ LET got == CacheGet(store, fullKey, SCHEMA_VERSION_NFT_DETAIL, dateNow)
       IN  /\ cacheResult' = got.result
           /\ store' = got.store
    /\ UNCHANGED <<runVars, serviceVars, positionVars, dateNow, pageVars, modalVars>>

\* cacheSet(fullKey, SCHEMA_VERSIONS.nftDetail, value); a setItem that throws is caught
\* and leaves the store as it was
CacheSetStep(fullKey, value, setItemThrows) ==
    /\ store' = IF setItemThrows THEN store
                ELSE CacheSet(store, fullKey, SCHEMA_VERSION_NFT_DETAIL, value,
                              DEFAULT_TTL_SECONDS, dateNow)
    /\ UNCHANGED <<runVars, serviceVars, positionVars, dateNow, cacheResult, pageVars, modalVars>>

\* Date.now() advances by a millisecond or by the time to live; the instants looked at
\* are those just after the start and just around the expiry of an entry written then
Tick(ms) ==
    /\ dateNow + ms <= LastInstant
    /\ (dateNow + ms) % (DEFAULT_TTL_SECONDS * 1000) <= ClockSlack
    /\ dateNow' = dateNow + ms
    /\ UNCHANGED <<runVars, serviceVars, positionVars, store, cacheResult, pageVars, modalVars>>

NextCache ==
    \/ \E fullKey \in CacheKeysUsed : CacheGetStep(fullKey)
    \/ \E fullKey \in CacheKeysUsed, value \in {"acquisition", "enrichment"},
          setItemThrows \in BOOLEAN : CacheSetStep(fullKey, value, setItemThrows)
    \/ \E ms \in {1, DEFAULT_TTL_SECONDS * 1000} : Tick(ms)

SpecCache == InitCache /\ [][NextCache]_vars

-----------------------------------------------------------------------------
(* The listing circuit breaker of lib/api/opensea.ts: failureCache is a map of the     *)
(* module, shared by every getNFTListings call.  A call that issues a request is two   *)
(* steps: the call up to its await, and the answer.                                    *)

\* const FAILURE_CACHE_TTL_MS = 10 * 60 * 1000
FAILURE_CACHE_TTL_MS == 10 * 60 * 1000

\* if (failureCache.size > 100)
FAILURE_CACHE_MAX_SIZE == 100

\* At most this many listing requests await their answer
MaxListingRequests == 2

\* The clock stops shortly after two times the time to live
BreakerHorizon == 2 * FAILURE_CACHE_TTL_MS + ClockSlack

Failure(failedAt, error) == [failedAt |-> failedAt, error |-> error]

\* Fault: a recorded failure is never dropped
GetCachedFailure_NeverExpires(cache, tokenKey, clock) ==
    [failure |-> cache[tokenKey], cache |-> cache]

\* getCachedFailure: the recorded failure (NoFailure for null) and the map left
GetCachedFailure(cache, tokenKey, clock) ==
    LET cached == cache[tokenKey]
    IN  IF cached = NoFailure THEN [failure |-> NoFailure, cache |-> cache]
        ELSE IF clock - cached.failedAt > FAILURE_CACHE_TTL_MS
        THEN [failure |-> NoFailure, cache |-> [cache EXCEPT ![tokenKey] = NoFailure]]
        ELSE [failure |-> cached, cache |-> cache]

\* setCachedFailure: the failure is recorded; above 100 entries the expired are dropped
SetCachedFailure(cache, tokenKey, error, clock) ==
    LET recorded == [cache EXCEPT ![tokenKey] = Failure(clock, error)]
        size     == Cardinality({k \in DOMAIN recorded : recorded[k] # NoFailure})
    IN  IF size > FAILURE_CACHE_MAX_SIZE
        THEN [k \in DOMAIN recorded |->
                 IF recorded[k] # NoFailure
                        /\ clock - recorded[k].failedAt > FAILURE_CACHE_TTL_MS
                 THEN NoFailure ELSE recorded[k]]
        ELSE recorded

\* How a listing request is answered: with listings, with a status that is not OK, with
\* a body that carries an error of OpenSea, or not at all (fetch throws)
ListingOutcomes == {"ok", "notOk", "dataError", "thrown"}

\* getNFTListings up to its await of the request, or to its return when the breaker is
\* open.  lastListings says what this call found in failureCache and what it did.
CallListings(tokenKey) ==
    /\ LET got == GetCachedFailure(failureCache, tokenKey, dateNow)
       IN  /\ failureCache' = got.cache
           /\ IF got.failure # NoFailure
              THEN /\ listingRequests' = listingRequests
                   /\ lastListings' = [tokenKey |-> tokenKey, requested |-> FALSE,
                                       hasBounds |-> FALSE, error |-> got.failure.error]
              ELSE /\ Cardinality(listingRequests) < MaxListingRequests
                   /\ listingRequests' =
                          listingRequests \cup {[tokenKey |-> tokenKey, issuedAt |-> dateNow]}
                   /\ lastListings' = [tokenKey |-> tokenKey, requested |-> TRUE,
                                       hasBounds |-> FALSE, error |-> ""]
    /\ UNCHANGED <<runVars, marketVars, applyVars, positionVars, cacheVars, pageVars,
                   modalVars, chunkVars, unanswered>>

\* The request is answered: a status that is not OK and a thrown error are recorded
ListingsAnswered(request, outcome) ==
    /\ request \in listingRequests
    /\ listingRequests' = listingRequests \ {request}
    /\ failureCache' =
           IF outcome = "notOk"
           THEN SetCachedFailure(failureCache, request.tokenKey, "API error", dateNow)
           ELSE IF outcome = "thrown"
           THEN SetCachedFailure(failureCache, request.tokenKey, "Network error", dateNow)
           ELSE failureCache
    /\ UNCHANGED <<runVars, marketVars, applyVars, positionVars, cacheVars, pageVars,
                   modalVars, chunkVars, unanswered, lastListings>>

\* Date.now() advances; the instants looked at are those around the multiples of the
\* time to live of a failure
BreakerTick(ms) ==
    /\ dateNow + ms <= BreakerHorizon
    /\ (dateNow + ms) % FAILURE_CACHE_TTL_MS <= ClockSlack
    /\ dateNow' = dateNow + ms
    /\ UNCHANGED <<runVars, serviceVars, positionVars, store, cacheResult, pageVars,
                   modalVars>>

InitBreaker ==
    /\ IdleRun
    /\ IdlePosition
    /\ IdleCache
    /\ IdlePage
    /\ IdleModal
    /\ IdleService
    /\ nftContractAddress = "0xNFT"
    /\ noCacheMode = FALSE

NextBreaker ==
    \/ \E tokenKey \in ListingKeys : CallListings(tokenKey)
    \/ \E request \in listingRequests, outcome \in ListingOutcomes :
           ListingsAnswered(request, outcome)
    \/ \E ms \in {1, FAILURE_CACHE_TTL_MS - 1, FAILURE_CACHE_TTL_MS} : BreakerTick(ms)

SpecBreaker == InitBreaker /\ [][NextBreaker]_vars

-----------------------------------------------------------------------------
(* The NFT detail modal: cache-then-refresh *)

\* A valid localStorage entry: present, parses, of the current schema version, not expired
ValidEntry(wallet, tokenId) ==
    LET entry == store[BuildNftDetailCacheKey(wallet, TokenKeyOf(nftContractAddress, tokenId))]
    IN  /\ entry.present
        /\ entry.parses
        /\ entry.schemaVersion = SCHEMA_VERSION_NFT_DETAIL
        /\ dateNow <= entry.expiresAt

\* The view of the active item has something cached to render: component state or a
\* valid localStorage entry (noCache mode reads neither)
CachedView ==
    /\ ~noCacheMode
    /\ \/ itemPurchaseData[activeTokenId] # ""
       \/ ValidEntry(modalWallet, activeTokenId)

\* The load effect runs for an open modal
ViewStep == effectPending /\ isOpen /\ isOpen' /\ ~effectPending'

-----------------------------------------------------------------------------
(* Cancellation of refreshes whose context was left *)

\* The context call r of loadItemDetails was started for has been left: the modal was
\* closed or unmounted, or another item is active
LeftContext(r) ==
    \/ ~isOpen
    \/ ~Alive(r)
    \/ activeTokenId # loadRuns[r].tokenId
    \/ modalWallet # loadRuns[r].walletAddress

\* Call e of enrichNFTsInBackground was cancelled: a wallet was submitted or cleared
\* after it started
CancelledRun(e) ==
    \/ e < Len(enrichRuns)
    \/ loading
    \/ walletData = NoWallet
    \/ walletData.address # enrichRuns[e].walletAddress

\* C18: a step of a loadItemDetails call whose context was left changes neither
\* listingsData, itemPurchaseData nor the cache, and a step of a cancelled
\* enrichNFTsInBackground call changes neither walletData nor the cache and starts
\* no batch.
C18_Cancellation ==
    [][/\ \A r \in DOMAIN loadRuns :
              (loadRuns'[r] # loadRuns[r] /\ LeftContext(r)) =>
                  /\ listingsData' = listingsData
                  /\ itemPurchaseData' = itemPurchaseData
                  /\ store' = store
       /\ \A e \in DOMAIN enrichRuns :
              (enrichRuns'[e] # enrichRuns[e] /\ CancelledRun(e)) =>
                  /\ walletData' = walletData
                  /\ store' = store
                  /\ enrichRuns'[e].i = enrichRuns[e].i]_vars

-----------------------------------------------------------------------------
(* Writers of one (wallet, token) key *)

\* Call r of loadItemDetails is in flight and will write itemPurchaseData[tokenId] and
\* the cache entry when its lookups answer: shouldUpdate holds for a foreground call
\* and for a call whose closure has no existing data
PendingWriter(r) ==
    /\ loadRuns[r].pc # "done"
    /\ ~loadRuns[r].isBackgroundRefresh \/ ~loadRuns[r].existingData

\* C19: no two calls of loadItemDetails that will write the displayed acquisition and
\* the cache entry of the same (wallet, token) are in flight at once, and no
\* enrichSingleNFT is in flight for a (wallet, token) while such a call is.
C19_SingleWriter ==
    /\ \A r1, r2 \in DOMAIN loadRuns :
           (/\ r1 < r2
            /\ loadRuns[r1].tokenId = loadRuns[r2].tokenId
            /\ loadRuns[r1].walletAddress = loadRuns[r2].walletAddress
            /\ PendingWriter(r1))
               => ~PendingWriter(r2)
    /\ \A e \in DOMAIN enrichRuns, r \in DOMAIN loadRuns :
           (/\ loadRuns[r].tokenId \in enrichRuns[e].inFlight
            /\ loadRuns[r].walletAddress = enrichRuns[e].walletAddress)
               => ~PendingWriter(r)

-----------------------------------------------------------------------------
(* The versioned cache *)

\* The entry under a key exists, parses, has the expected schema version and is not
\* past its expiry
LiveEntry(entry) ==
    /\ entry.present
    /\ entry.parses
    /\ entry.schemaVersion = SCHEMA_VERSION_NFT_DETAIL
    /\ ~(dateNow > entry.expiresAt)

\* The entry parses and is of another schema version, or of the expected one and expired
StaleEntry(entry) ==
    /\ entry.present
    /\ entry.parses
    /\ \/ entry.schemaVersion # SCHEMA_VERSION_NFT_DETAIL
       \/ dateNow > entry.expiresAt

\* C20: cacheGet returns a hit, with the stored value, exactly for a live entry, and then
\* leaves the store alone; for an entry of another version and for an expired entry
\* alike it returns hit=false and removes that entry and nothing else, so that the
\* same cacheGet repeated at once reports not_found; for a missing entry it reports
\* not_found and leaves the store unchanged.
C20_CacheGet ==
    \A fullKey \in CacheKeysUsed :
        LET entry == store[fullKey]
            got   == CacheGet(store, fullKey, SCHEMA_VERSION_NFT_DETAIL, dateNow)
            again == CacheGet(got.store, fullKey, SCHEMA_VERSION_NFT_DETAIL, dateNow)
        IN  /\ got.result.hit <=> LiveEntry(entry)
            /\ got.result.cacheKey = fullKey
            /\ LiveEntry(entry) => /\ got.result.value = entry.data
                                   /\ got.store = store
            /\ StaleEntry(entry) =>
                   /\ ~got.result.hit
                   /\ got.result.reason =
                          IF entry.schemaVersion # SCHEMA_VERSION_NFT_DETAIL
                          THEN "version_mismatch" ELSE "expired"
                   /\ got.store = [store EXCEPT ![fullKey] = NoEntry]
                   /\ ~again.result.hit
                   /\ again.result.reason = "not_found"
                   /\ again.store = got.store
            /\ ~entry.present => /\ got.result.reason = "not_found"
                                 /\ got.store = store

\* A cacheGet has just removed an expired entry, while the other key holds an entry of
\* an older schema version
C20_Witness ==
    /\ cacheResult.reason = "expired"
    /\ ~store[cacheResult.cacheKey].present
    /\ \E fullKey \in CacheKeysUsed :
           /\ store[fullKey].present
           /\ store[fullKey].parses
           /\ store[fullKey].schemaVersion # SCHEMA_VERSION_NFT_DETAIL

\* C26: while the modal is open, the listing bounds that getPositionLabel is rendered
\* with were fetched for the tokenId of the active item.
C26_ListingsOfActiveItem ==
    (isOpen /\ listingsData # NoListings) => listingsData.tokenId = activeTokenId

\* The upstream record carries no id, no purchaseId, no txHash and no orderId
Unidentified(p) == p.id = "" /\ p.txHash = "" /\ p.orderId = ""

\* A candidate with the price and the date of the upstream record is left after dedupe
Retained(p) ==
    \E k \in DOMAIN dedupedPurchases :
        /\ dedupedPurchases[k].priceGun = p.price
        /\ dedupedPurchases[k].purchaseDateIso = p.purchaseDate

\* Two records of the response carry no id of any kind and differ in date or price
DistinctUnidentified(feed, i, j) ==
    /\ i # j
    /\ Unidentified(feed[i])
    /\ Unidentified(feed[j])
    /\ (feed[i].price # feed[j].price \/ feed[i].purchaseDate # feed[j].purchaseDate)

\* C27: after normalisation and dedupe, two records of one response (by token or by
\* wallet) that carry no id, share no txHash and no orderId and differ in timestamp or
\* price are both retained as candidates.
C27_DistinctRetained ==
    Matched =>
        \A feed \in {feedToken, feedViewer} :
            \A i, j \in DOMAIN feed :
                DistinctUnidentified(feed, i, j) => Retained(feed[i]) /\ Retained(feed[j])

\* C28: no NFT detail cache entry holds the empty result of a transfer-history lookup
\* that timed out in enrichSingleNFT.
C28_TimeoutNotPersisted ==
    \A fullKey \in CacheKeys :
        (store[fullKey].present /\ store[fullKey].parses) => store[fullKey].data # "empty"

\* The enrichSingleNFT calls that await their lookups, over all calls of
\* enrichNFTsInBackground
RECURSIVE InFlightCalls(_)
InFlightCalls(runs) ==
    IF runs = <<>> THEN 0 ELSE Cardinality(Head(runs).inFlight) + InFlightCalls(Tail(runs))

\* C22: at any time at most ENRICHMENT_BATCH_SIZE enrichSingleNFT calls are in flight,
\* also when a load-more or a new wallet submit starts another enrichNFTsInBackground
\* while an earlier one is still in flight.
C22_BoundedEnrichment == InFlightCalls(enrichRuns) <= ENRICHMENT_BATCH_SIZE

\* The getLogs call answered and covers the block
AnsweredFor(c, blockNumber) ==
    ~c.failed /\ c.fromBlock <= blockNumber /\ blockNumber <= c.toBlock

\* The calls so far respect the subdivision rule: chunk sizes 100000, 25000 and 6250
\* only, at most two levels of nested calls, a failed chunk above 10000 is followed at
\* once by the first quarter-size chunk of the same range, and the range of a failed
\* chunk of at most 10000 is never queried again
FailuresHandled ==
    /\ Len(chunkStack) <= 3
    /\ \A k \in DOMAIN getLogsCalls :
           LET c == getLogsCalls[k]
           IN  /\ c.chunkSize \in {DefaultChunkSize, DefaultChunkSize \div 4,
                                   DefaultChunkSize \div 16}
               /\ (c.failed /\ c.chunkSize > RetryAbove /\ k < Len(getLogsCalls)) =>
                      /\ getLogsCalls[k + 1].fromBlock = c.fromBlock
                      /\ getLogsCalls[k + 1].chunkSize = c.chunkSize \div 4
                      /\ getLogsCalls[k + 1].toBlock <= c.toBlock
               /\ (c.failed /\ c.chunkSize <= RetryAbove) =>
                      \A m \in DOMAIN getLogsCalls :
                          m > k => \/ getLogsCalls[m].toBlock < c.fromBlock
                                   \/ c.toBlock < getLogsCalls[m].fromBlock

\* What a returned query holds: a gap for every chunk of at most 10000 that failed and
\* for nothing else, the last block reached, and exactly the chain's logs of the ranges
\* that answered, in order
PartialResult ==
    queryResult.returned =>
        /\ \A k \in DOMAIN getLogsCalls :
               LET c == getLogsCalls[k]
               IN  (c.failed /\ c.chunkSize <= RetryAbove) =>
                       \E i \in DOMAIN queryResult.blockRanges :
                           queryResult.blockRanges[i] =
                               [from |-> c.fromBlock, to |-> c.toBlock, logsFound |-> 0 - 1]
        /\ \A i \in DOMAIN queryResult.blockRanges :
               LET r == queryResult.blockRanges[i]
               IN  r.logsFound < 0 =>
                       \E k \in DOMAIN getLogsCalls :
                           /\ getLogsCalls[k].failed
                           /\ getLogsCalls[k].chunkSize <= RetryAbove
                           /\ getLogsCalls[k].fromBlock = r.from
                           /\ getLogsCalls[k].toBlock = r.to
        /\ \E k \in DOMAIN getLogsCalls : getLogsCalls[k].toBlock = queryRange.toBlock
        /\ queryResult.logs =
               SelectSeq(ChainLogs,
                         LAMBDA l : \E k \in DOMAIN getLogsCalls :
                                        AnsweredFor(getLogsCalls[k], l.blockNumber))

\* The query goes on until it returns: while it has not returned a call is in its loop
\* or about to return, and no chunk is queried twice at the same chunk size, so that
\* only finitely many getLogs calls are made
Returns ==
    /\ chunkStack # <<>> \/ queryResult.returned
    /\ \A k, m \in DOMAIN getLogsCalls :
           (k < m /\ getLogsCalls[k].chunkSize = getLogsCalls[m].chunkSize) =>
               getLogsCalls[k].toBlock < getLogsCalls[m].fromBlock
    /\ \A k \in DOMAIN getLogsCalls :
           /\ queryRange.fromBlock <= getLogsCalls[k].fromBlock
           /\ getLogsCalls[k].toBlock <= queryRange.toBlock

\* C21: for any pattern of failing getLogs calls, queryLogsInChunks returns; a failed
\* chunk above 10000 is queried again in quarters (100000, 25000, 6250), a failed chunk
\* of at most 10000 is recorded as a gap and not retried, the remaining ranges are still
\* queried, and the logs of every range that answered are in the result.
C21_ChunkFailures == Returns /\ FailuresHandled /\ PartialResult

\* A query over two top-level chunks returned with a gap, after a failed chunk of
\* 100000 and a failed chunk of 25000, and with logs of the ranges that answered
C21_Witness ==
    /\ queryResult.returned
    /\ queryResult.logs # <<>>
    /\ \E i \in DOMAIN queryResult.blockRanges : queryResult.blockRanges[i].logsFound < 0
    /\ \E k \in DOMAIN getLogsCalls :
           getLogsCalls[k].failed /\ getLogsCalls[k].chunkSize = DefaultChunkSize
    /\ \E k \in DOMAIN getLogsCalls :
           /\ ~getLogsCalls[k].failed
           /\ getLogsCalls[k].fromBlock = queryRange.fromBlock + DefaultChunkSize

RECURSIVE BlocksIn(_)
BlocksIn(ranges) ==
    IF ranges = <<>> THEN 0
    ELSE Head(ranges).to - Head(ranges).from + 1 + BlocksIn(Tail(ranges))

\* C29: the block ranges a returned query recorded are pairwise disjoint and cover
\* exactly [fromBlock, toBlock], each is a chunk that answered or a gap, and no getLogs
\* call spans more than 100000 blocks.
C29_ExactCover ==
    /\ \A k \in DOMAIN getLogsCalls :
           /\ getLogsCalls[k].fromBlock <= getLogsCalls[k].toBlock
           /\ getLogsCalls[k].toBlock - getLogsCalls[k].fromBlock + 1 <= DefaultChunkSize
    /\ queryResult.returned =>
           LET ranges == queryResult.blockRanges
           IN  /\ \A i \in DOMAIN ranges :
                      /\ queryRange.fromBlock <= ranges[i].from
                      /\ ranges[i].from <= ranges[i].to
                      /\ ranges[i].to <= queryRange.toBlock
                      /\ \E k \in DOMAIN getLogsCalls :
                             /\ getLogsCalls[k].fromBlock = ranges[i].from
                             /\ getLogsCalls[k].toBlock = ranges[i].to
                             /\ ranges[i].logsFound =
                                    IF getLogsCalls[k].failed THEN 0 - 1
                                    ELSE Len(GetLogsAnswer(ranges[i].from, ranges[i].to))
               /\ \A i, j \in DOMAIN ranges :
                      i # j => ranges[i].to < ranges[j].from \/ ranges[j].to < ranges[i].from
               /\ BlocksIn(ranges) = queryRange.toBlock - queryRange.fromBlock + 1

\* A returned query recorded a gap, a range of a quarter-size chunk that answered, and a
\* range of the second top-level chunk
C29_Witness ==
    /\ queryResult.returned
    /\ \E i, j, k \in DOMAIN queryResult.blockRanges :
           /\ queryResult.blockRanges[i].logsFound < 0
           /\ queryResult.blockRanges[j].logsFound >= 0
           /\ queryResult.blockRanges[j].to - queryResult.blockRanges[j].from + 1
                  = DefaultChunkSize \div 4
           /\ queryResult.blockRanges[k].from = queryRange.fromBlock + DefaultChunkSize

\* The breaker is open for the key: a failure is recorded and at most 10 minutes old
BreakerOpen(tokenKey) ==
    /\ failureCache[tokenKey] # NoFailure
    /\ dateNow - failureCache[tokenKey].failedAt <= FAILURE_CACHE_TTL_MS

\* C30: a getNFTListings call for a key whose last failure was recorded at most 10
\* minutes ago returns null bounds with the recorded error and issues no request; a call
\* after that, or for a key without a recorded failure, issues a request, whatever is
\* recorded for other keys.
C30_CircuitBreaker ==
    [][\A tokenKey \in ListingKeys :
           CallListings(tokenKey) =>
               IF BreakerOpen(tokenKey)
               THEN /\ listingRequests' = listingRequests
                    /\ failureCache' = failureCache
                    /\ lastListings' = [tokenKey |-> tokenKey, requested |-> FALSE,
                                        hasBounds |-> FALSE,
                                        error |-> failureCache[tokenKey].error]
               ELSE /\ [tokenKey |-> tokenKey, issuedAt |-> dateNow] \in listingRequests'
                    /\ lastListings'.requested
                    /\ \A other \in ListingKeys \ {tokenKey} :
                           failureCache'[other] = failureCache[other]]_vars

\* The last call was refused for a key whose failure is exactly 10 minutes old, while a
\* request for the other key, issued after that failure was recorded, is in flight
C30_Witness ==
    /\ lastListings.tokenKey # ""
    /\ ~lastListings.requested
    /\ lastListings.error = "API error"
    /\ failureCache[lastListings.tokenKey].failedAt + FAILURE_CACHE_TTL_MS = dateNow
    /\ failureCache[lastListings.tokenKey].failedAt > 0
    /\ \E request \in listingRequests :
           /\ request.tokenKey # lastListings.tokenKey
           /\ request.issuedAt > failureCache[lastListings.tokenKey].failedAt

\* The lookup was not answered with purchases
Failed(lookup) == proxyAnswer[lookup] # "ok"

\* The acquisition derived from the transfers alone: no purchase price, no purchase date
TransferDerived ==
    /\ freshAcquisition.acquisitionSource = IF HasTransferData(transferHistory)
                                            THEN "transfers" ELSE "none"
    /\ freshAcquisition.purchasePriceGun = Undefined
    /\ freshAcquisition.purchaseDate = Undefined
    /\ freshAcquisition.acquiredAt =
           IF HasTransferData(transferHistory) THEN AcquiredAt(transferHistory)
           ELSE Undefined

\* C23 as claimed: a lookup that fails yields no candidates, an unconfigured marketplace
\* is sent no request at all, and with all of the marketplace failing the run ends with
\* the transfer-derived acquisition, match method 'none' and no purchase price.
C23_AsClaimed ==
    pc = "done" =>
        /\ Failed("token") => tokenPurchases = <<>>
        /\ Failed("viewer") => viewerWalletPurchases = <<>>
        /\ Failed("owner") => currentOwnerPurchases = <<>>
        /\ ~isConfigured => lookupsIssued = <<>>
        /\ (~isConfigured \/ \A lookup \in Lookups : Failed(lookup)) =>
               /\ dedupedPurchases = <<>>
               /\ marketplaceMatchMethod = "none"
               /\ TransferDerived

\* C23: a lookup that fails yields no candidates; an unconfigured marketplace is sent
\* neither getPurchasesForToken nor getPurchasesForWallet, only the testConnection probe
\* when the transfer history gave an acquisition time; and with all of the marketplace
\* failing the run ends with the transfer-derived acquisition, match method 'none' and
\* no purchase price.
C23_BestEffort ==
    pc = "done" =>
        /\ Failed("token") => tokenPurchases = <<>>
        /\ Failed("viewer") => viewerWalletPurchases = <<>>
        /\ Failed("owner") => currentOwnerPurchases = <<>>
        /\ ~isConfigured =>
               /\ lookupsIssued \in {<<>>, <<"testConnection">>}
               /\ tokenPurchases = <<>>
               /\ viewerWalletPurchases = <<>>
               /\ currentOwnerPurchases = <<>>
        /\ (~isConfigured \/ \A lookup \in Lookups : Failed(lookup)) =>
               /\ dedupedPurchases = <<>>
               /\ marketplaceMatchMethod = "none"
               /\ TransferDerived

\* A run with transfer data ended with the transfer-derived acquisition after the
\* unconfigured marketplace was sent the testConnection probe and nothing else, although
\* the proxy would have answered every lookup with the purchase
C23_Witness ==
    /\ pc = "done"
    /\ ~isConfigured
    /\ HasTransferData(transferHistory)
    /\ lookupsIssued = <<"testConnection">>
    /\ \A lookup \in Lookups : ~Failed(lookup)
    /\ freshAcquisition.acquisitionSource = "transfers"
    /\ marketplaceMatchMethod = "none"

\* C25: after a background refresh whose transfer-history lookup failed or found no
\* logs, the displayed purchase price and the cached entry still hold the cached price.
C25_RefreshKeepsPrice ==
    (pc = "applied" /\ runIsBackground /\ ~HasTransferData(transferHistory)) =>
        /\ renderedData.purchasePriceGun = CachedPrice
        /\ cachedDetail.purchasePriceGun = CachedPrice

-----------------------------------------------------------------------------
\* C24: every call of loadItemDetails eventually reaches its finally block, even when
\* an upstream never answers: a call that has started is eventually done.
C24_RunsComplete ==
    \A r \in 1..MaxLoadRuns :
        (r \in DOMAIN loadRuns) ~> (r \in DOMAIN loadRuns /\ loadRuns[r].pc = "done")

====
